---- MODULE Spec2Model ----
(***************************************************************************)
(* A model of cppmemo (src/cppmemo.hpp) and of the concurrent insert-only  *)
(* map it stores its values in, Fcmm (src/fcmm/fcmm.hpp).                   *)
(*                                                                         *)
(* Threads take one step per access to shared memory: an atomic load, a    *)
(* compare-exchange, a store, a fetch_add.  The code that runs between two *)
(* such accesses touches only the thread's own locals and is part of the   *)
(* step that precedes it.  Fcmm::find only reads; bucket states only move  *)
(* EMPTY -> BUSY -> VALID and a VALID entry is never written again, so a    *)
(* find that reports "absent" agrees with the find run atomically when it  *)
(* started and a find that reports an entry agrees with the find run       *)
(* atomically when it read that bucket: find is one step.                  *)
(***************************************************************************)
EXTENDS Integers, Sequences, FiniteSets, TLC

(***************************************************************************)
(* Bounds of the model.                                                    *)
(***************************************************************************)
\* the dependency graphs have the keys 0 .. MaxKey, MaxKey being the root
MaxKey == 2
\* Compute(key) reads at most MaxDeps keys
MaxDeps == 2
\* the keys direct users of the map insert are 0 .. MaxMapKey
MaxHash == 7
MaxThreadNo == 2
MaxStack == 3
MaxProbeCapacity == 7
MaxMapKey == 3
\* FCMM_FIRST_SUBMAP_MIN_CAPACITY is the first prime from here on.  The
\* source has 65537 (fcmm.hpp:77); the model scales it down so that a
\* submap fills up, overloads and makes the map expand with a few keys.
CapacityScale == 3

\* The threads: the workers of a getValue call (thread numbers 0 and 1), or
\* two threads using the map directly.  A third thread multiplies the
\* reachable states by several hundred.
Threads == {0, 1}
\* the insert calls each direct user of the map makes, one after the other
UserCalls == {1, 2}

(***************************************************************************)
(* Program constants.                                                      *)
(***************************************************************************)
FCMM_DEFAULT_MAX_NUM_SUBMAPS == 128
FCMM_NEW_SUBMAPS_CAPACITY_MULTIPLIER == 8

Keys == 0 .. MaxKey
\* std::vector<Item> items grows as long as memory lasts; here up to
\* StackBound items, more than a stack over an acyclic graph ever holds
\* (the root, and MaxDeps prerequisites for each of MaxKey levels)
StackBound == 2 + MaxKey * MaxDeps
MapKeys == 0 .. MaxMapKey
Max(a, b) == IF a >= b THEN a ELSE b

VARIABLES
    submaps,        \* Fcmm::submaps: the allocated slots, slot -> Submap
    numSubmaps,     \* Fcmm::numSubmaps
    numEntries,     \* Fcmm::numEntries
    expanding,      \* Fcmm::expanding
    maxNumSubmaps,  \* Fcmm::getMaxNumSubmaps(), the constructor's argument
    th,             \* per thread: its program counter and its locals
    deps,           \* the user's functions: key -> the keys Compute(key) reads
    detectCircularDependencies,   \* CppMemo::detectCircularDependencies
    defaultNumThreads,            \* CppMemo::defaultNumThreads
    valueDependent, \* the user's Compute: it returns at the first prerequisite
                    \* whose value is the dummy value, reading no further
    gv,             \* the getValue call: where it is, its arguments, its result
    hist            \* history of the calls, read by the properties only

vars == <<submaps, numSubmaps, numEntries, expanding, maxNumSubmaps, th, deps,
          detectCircularDependencies, defaultNumThreads, valueDependent, gv,
          hist>>

mapVars == <<submaps, numSubmaps, numEntries, expanding>>
cfgVars == <<maxNumSubmaps, deps, detectCircularDependencies, defaultNumThreads,
            valueDependent>>

(***************************************************************************)
(* fcmm.hpp: primes and capacities.                                        *)
(***************************************************************************)
RECURSIVE fcmmIsPrimeFrom(_, _)
fcmmIsPrimeFrom(n, divisor) ==
    LET quotient == n \div divisor IN
    IF quotient < divisor THEN TRUE
    ELSE IF n = quotient * divisor THEN FALSE
    ELSE fcmmIsPrimeFrom(n, divisor + 2)

fcmmIsPrime(n) == fcmmIsPrimeFrom(n, 3)

RECURSIVE fcmmNextPrimeOdd(_)
fcmmNextPrimeOdd(n) == IF fcmmIsPrime(n) THEN n ELSE fcmmNextPrimeOdd(n + 2)

fcmmNextPrime(n) ==
    IF n <= 2 THEN 2
    ELSE fcmmNextPrimeOdd(IF n % 2 = 0 THEN n + 1 ELSE n)

FCMM_FIRST_SUBMAP_MIN_CAPACITY == fcmmNextPrime(CapacityScale)

\* 1.03f * estimatedNumEntries / maxLoadFactor, converted to std::size_t
firstSubmapCapacity(estimatedNumEntries) ==
    Max(FCMM_FIRST_SUBMAP_MIN_CAPACITY,
        fcmmNextPrime((103 * estimatedNumEntries) \div 75))

EmptyBucket == [state |-> "EMPTY", key |-> 0, value |-> 0]

NewSubmap(capacity) ==
    [buckets |-> [i \in 0 .. (capacity - 1) |-> EmptyBucket], numValidBuckets |-> 0]

getCapacity(sm) == Cardinality(DOMAIN sm.buckets)

\* (float) numValidBuckets / capacity >= maxLoadFactor, maxLoadFactor = 0.75
isOverloaded(sm) == 4 * sm.numValidBuckets >= 3 * getCapacity(sm)

(***************************************************************************)
(* Hashing and probing.                                                    *)
(***************************************************************************)
\* KeyHash1 = std::hash<int>: the identity
keyHash1(key) == key
\* KeyHash2 = FcmmDummyHashFunction
keyHash2(key) == 0

\* a probe increment taken modulo the capacity: in [1, capacity]
calculateProbeIncrementModCapacity(sm, hash2) == 1 + (hash2 % getCapacity(sm))

calculateProbeIncrement(sm, hash2) == 1 + (hash2 % (getCapacity(sm) - 1))

\* startIndex = hash1 % getCapacity()
probeStart(sm, hash1) == hash1 % getCapacity(sm)

\* index = (index + probeIncrement) % getCapacity()
probeNext(sm, hash2, index) ==
    (index + calculateProbeIncrement(sm, hash2)) % getCapacity(sm)

startIndexOf(sm, key) == probeStart(sm, keyHash1(key))

nextIndex(sm, key, index) == probeNext(sm, keyHash2(key), index)

(***************************************************************************)
(* Submap::find and Fcmm::findHelper, find, at.                            *)
(***************************************************************************)
NotFound == [found |-> FALSE, submapIndex |-> 0, bucketIndex |-> 0]

RECURSIVE submapFindFrom(_, _, _)
submapFindFrom(sm, key, index) ==
    LET bucket == sm.buckets[index]
        nxt == nextIndex(sm, key, index)
    IN  IF bucket.state = "VALID" /\ bucket.key = key
            THEN [found |-> TRUE, index |-> index]
        ELSE IF bucket.state = "EMPTY"
            THEN [found |-> FALSE, index |-> 0]
        ELSE IF nxt = startIndexOf(sm, key)
            THEN [found |-> FALSE, index |-> 0]
        ELSE submapFindFrom(sm, key, nxt)

\* a find that looks at the start bucket only and does not probe
submapFindNoProbe(sm, key) ==
    LET index == startIndexOf(sm, key)
        bucket == sm.buckets[index]
    IN  IF bucket.state = "VALID" /\ bucket.key = key
            THEN [found |-> TRUE, index |-> index]
            ELSE [found |-> FALSE, index |-> 0]

submapFind(sm, key) == submapFindFrom(sm, key, startIndexOf(sm, key))

\* a findHelper that searches the submap it starts at and none before it
findHelperLastOnly(subs, key, submapIndex) ==
    IF submapIndex < 0 THEN NotFound
    ELSE LET findResult == submapFind(subs[submapIndex], key) IN
         IF findResult.found
            THEN [found |-> TRUE, submapIndex |-> submapIndex,
                  bucketIndex |-> findResult.index]
            ELSE NotFound

RECURSIVE findHelper(_, _, _)
findHelper(subs, key, submapIndex) ==
    IF submapIndex < 0 THEN NotFound
    ELSE LET findResult == submapFind(subs[submapIndex], key) IN
         IF findResult.found
            THEN [found |-> TRUE, submapIndex |-> submapIndex,
                  bucketIndex |-> findResult.index]
            ELSE findHelper(subs, key, submapIndex - 1)

find(key) == findHelper(submaps, key, numSubmaps - 1)

entryAt(it) == submaps[it.submapIndex].buckets[it.bucketIndex]

(***************************************************************************)
(* Fcmm::const_iterator: begin(), seek(), next() up to end().              *)
(***************************************************************************)
\* an iteration that ends with the submap it starts in
RECURSIVE iterateOneSubmap(_, _, _, _)
iterateOneSubmap(subs, nSubmaps, submapIndex, bucketIndex) ==
    IF submapIndex > nSubmaps - 1 THEN <<>>
    ELSE IF bucketIndex >= getCapacity(subs[submapIndex]) THEN <<>>
    ELSE IF subs[submapIndex].buckets[bucketIndex].state = "VALID"
        THEN <<[submapIndex |-> submapIndex, bucketIndex |-> bucketIndex]>>
             \o iterateOneSubmap(subs, nSubmaps, submapIndex, bucketIndex + 1)
    ELSE iterateOneSubmap(subs, nSubmaps, submapIndex, bucketIndex + 1)

RECURSIVE iterateFrom(_, _, _, _)
iterateFrom(subs, nSubmaps, submapIndex, bucketIndex) ==
    IF submapIndex > nSubmaps - 1 THEN <<>>
    ELSE IF bucketIndex >= getCapacity(subs[submapIndex])
        THEN iterateFrom(subs, nSubmaps, submapIndex + 1, 0)
    ELSE IF subs[submapIndex].buckets[bucketIndex].state = "VALID"
        THEN <<[submapIndex |-> submapIndex, bucketIndex |-> bucketIndex]>>
             \o iterateFrom(subs, nSubmaps, submapIndex, bucketIndex + 1)
    ELSE iterateFrom(subs, nSubmaps, submapIndex, bucketIndex + 1)

iterate == iterateFrom(submaps, numSubmaps, 0, 0)

(***************************************************************************)
(* The user's functions.  Compute(key) reads the keys deps[key] in order   *)
(* and returns 1 plus the sum of what it read (fibonacci.cpp, and          *)
(* calculate of cycle_check.cpp); DeclarePrerequisites(key) declares the   *)
(* same keys in the same order.  Value() is 0, the dummy of a dry run.     *)
(***************************************************************************)
dummyValue == 0

computeResult(acc) == 1 + acc

\* the value plain recursion gives
RECURSIVE F(_, _)
RECURSIVE SumF(_, _, _)
F(d, key) == computeResult(SumF(d, d[key], 1))
SumF(d, prereqs, i) ==
    IF i > Len(prereqs) THEN 0 ELSE F(d, prereqs[i]) + SumF(d, prereqs, i + 1)

\* the value a direct user of the map stores under a key
ValueOf(key) == 10 + key

(***************************************************************************)
(* A thread: its program counter and its locals.                           *)
(*   items, groupSize, itemsSet   ThreadItemsStack                         *)
(*   mode                         PrerequisitesProvider::mode              *)
(*   ckey, ci, acc                the running Compute or Declare: its key, *)
(*                                the next prerequisite, the sum so far    *)
(*   ikey .. index                Fcmm::insertHelper and Submap::insert    *)
(*   lazy                         computeValue is CppMemo::run's lambda    *)
(*   ret                          where the insert call returns to         *)
(*   exc, keysStack               the exception that ended the thread      *)
(*   opsLeft, res                 a direct user: calls left, last result   *)
(*   it                           a direct user: the iterator it holds     *)
(***************************************************************************)
NoRes == [op |-> "none", key |-> 0, found |-> FALSE, inserted |-> FALSE,
          itKey |-> 0, itValue |-> 0, after |-> FALSE, computeCalls |-> 0,
          incremented |-> FALSE]

\* a const_iterator a thread holds; key and value are what *it gave when the
\* iterator came to designate its entry, numSubmapsThen how many submaps
\* the map had then (read by the properties only)
NoIterator == [held |-> FALSE, end |-> FALSE, submapIndex |-> 0,
               bucketIndex |-> 0, key |-> 0, value |-> 0, numSubmapsThen |-> 0]

\* const_iterator(map, submapIndex, bucketIndex), dereferenced
iteratorAt(it) ==
    [held |-> TRUE, end |-> FALSE, submapIndex |-> it.submapIndex,
     bucketIndex |-> it.bucketIndex,
     key |-> entryAt(it).key, value |-> entryAt(it).value,
     numSubmapsThen |-> numSubmaps]

NoThread ==
    [pc |-> "off", items |-> <<>>, groupSize |-> 0, itemsSet |-> {},
     mode |-> "NORMAL", ckey |-> 0, ci |-> 0, acc |-> 0,
     ikey |-> 0, ivalue |-> 0, lazy |-> FALSE, valueComputed |-> FALSE,
     last |-> 0, index |-> 0, snap |-> 0, ret |-> "none",
     exc |-> "none", keysStack |-> <<>>, opsLeft |-> 0, res |-> NoRes,
     it |-> NoIterator, hash1 |-> 0, hash2 |-> 0, probed |-> <<>>]

throw(s, exception) ==
    [s EXCEPT !.pc = "threw", !.exc = exception]

(***************************************************************************)
(* CppMemo::ThreadItemsStack.                                              *)
(***************************************************************************)
getKeysStack(items) == [i \in 1 .. Len(items) |-> items[i].key]

\* a push that looks the key up before it appends the item
pushCheckFirst(s, key) ==
    LET pushed == Append(s.items, [key |-> key, ready |-> FALSE]) IN
    IF detectCircularDependencies /\ key \in s.itemsSet
        THEN [throw(s, "CircularDependencyException") EXCEPT
                 !.keysStack = getKeysStack(s.items)]
        ELSE [s EXCEPT !.items = pushed, !.groupSize = @ + 1]

push(s, key) ==
    LET pushed == Append(s.items, [key |-> key, ready |-> FALSE]) IN
    IF detectCircularDependencies /\ key \in s.itemsSet
        THEN [throw(s, "CircularDependencyException") EXCEPT
                 !.items = pushed, !.keysStack = getKeysStack(pushed)]
        ELSE [s EXCEPT !.items = pushed, !.groupSize = @ + 1]

pop(s) ==
    IF s.groupSize # 0 THEN throw(s, "runtime_error")
    ELSE [s EXCEPT
            !.itemsSet = IF detectCircularDependencies
                            THEN @ \ {s.items[Len(s.items)].key} ELSE @,
            !.items = SubSeq(@, 1, Len(@) - 1)]

reverse(seq) == [i \in 1 .. Len(seq) |-> seq[Len(seq) + 1 - i]]

\* std::shuffle: some permutation, whichever the generator draws
shuffles(seq) ==
    { [i \in 1 .. Len(seq) |-> seq[p[i]]] :
        p \in { q \in [1 .. Len(seq) -> 1 .. Len(seq)] :
                    \A i, j \in 1 .. Len(seq) : i # j => q[i] # q[j] } }

\* a finalizeGroup that reverses the group for every thread, thread 0 too
finalizeGroupReverseAll(threadNo, s) ==
    LET n == Len(s.items)
        below == SubSeq(s.items, 1, n - s.groupSize)
        group == SubSeq(s.items, n - s.groupSize + 1, n)
    IN  { [s EXCEPT
             !.items = below \o reverse(group),
             !.itemsSet = IF detectCircularDependencies
                             THEN @ \cup { group[i].key : i \in 1 .. Len(group) }
                             ELSE @,
             !.groupSize = 0] }

\* the stacks finalizeGroup may leave (one, but for a shuffling thread)
finalizeGroup(threadNo, s) ==
    LET n == Len(s.items)
        below == SubSeq(s.items, 1, n - s.groupSize)
        group == SubSeq(s.items, n - s.groupSize + 1, n)
        groups == IF threadNo # 0 /\ s.groupSize > 1
                     THEN IF threadNo = 1 THEN {reverse(group)}
                                          ELSE shuffles(group)
                     ELSE {group}
    IN  { [s EXCEPT
             !.items = below \o g,
             !.itemsSet = IF detectCircularDependencies
                             THEN @ \cup { g[i].key : i \in 1 .. Len(g) }
                             ELSE @,
             !.groupSize = 0] : g \in groups }

(***************************************************************************)
(* Calls and returns.                                                      *)
(***************************************************************************)
setThread(t, s) == th' = [th EXCEPT ![t] = s]

\* Fcmm::insert(key, computeValue) is entered
callInsert(s, key, value, lazy, ret) ==
    [s EXCEPT !.pc = "ih_loop", !.ikey = key, !.ivalue = value, !.lazy = lazy,
              !.valueComputed = FALSE, !.ret = ret,
              !.ckey = 0, !.ci = 0, !.acc = 0]

\* the locals of insertHelper, Submap::insert and expand go out of scope
leaveInsert(s) ==
    [s EXCEPT !.ikey = 0, !.ivalue = 0, !.lazy = FALSE, !.valueComputed = FALSE,
              !.last = 0, !.index = 0, !.snap = 0, !.ret = "none"]

\* what the caller does with the pair insert returns, up to its next access
\* to shared memory: CppMemo::run pops (and, after a dry run, finalizes the
\* empty group); a direct user keeps the result
afterInsert(t, s, it, inserted) ==
    LET left == leaveInsert(s)
        popped == pop([left EXCEPT !.res = NoRes])
    IN  CASE s.ret = "r_pop" ->
                { IF popped.exc # "none" THEN popped
                                         ELSE [popped EXCEPT !.pc = "r_loop"] }
          [] s.ret = "r_drypop" ->
                IF popped.exc # "none" THEN {popped}
                ELSE { [q EXCEPT !.pc = "r_loop"] : q \in finalizeGroup(t, popped) }
          [] OTHER ->
                { [left EXCEPT !.pc = "idle",
                               !.it = iteratorAt(it),
                               !.res.found = TRUE,
                               !.res.inserted = inserted,
                               !.res.itKey = entryAt(it).key,
                               !.res.itValue = entryAt(it).value] }

Return(t, s, it, inserted) ==
    /\ \E n \in afterInsert(t, s, it, inserted) : setThread(t, n)
    /\ hist' = IF s.ret = "client"
                  THEN [hist EXCEPT !.returned = @ \cup {s.ikey},
                                    !.insReturned = @ \cup {s.ikey}]
                  ELSE hist

(***************************************************************************)
(* The user's Compute, run through PrerequisitesProvider.                  *)
(***************************************************************************)
\* a CppMemo::run that emplaces what the dry run returned whatever the group
\* size, the tentative values too
computeDoneKeepTentative(t, s) ==
    LET value == computeResult(s.acc)
        back == [s EXCEPT !.ckey = 0, !.ci = 0, !.acc = 0]
    IN  IF s.mode = "NORMAL"
            THEN { [back EXCEPT !.ivalue = value, !.valueComputed = TRUE,
                                !.pc = "si_cas"] }
        ELSE { callInsert(back, s.ckey, value, FALSE, "r_drypop") }

\* a CppMemo::run that emplaces nothing of what a dry run returned: every
\* key is computed again once its item is ready
computeDoneDiscardDryRun(t, s) ==
    LET value == computeResult(s.acc)
        back == [s EXCEPT !.ckey = 0, !.ci = 0, !.acc = 0]
    IN  IF s.mode = "NORMAL"
            THEN { [back EXCEPT !.ivalue = value, !.valueComputed = TRUE,
                                !.pc = "si_cas"] }
        ELSE { [q EXCEPT !.pc = "r_loop"] : q \in finalizeGroup(t, back) }

\* Compute has returned
computeDone(t, s) ==
    LET value == computeResult(s.acc)
        back == [s EXCEPT !.ckey = 0, !.ci = 0, !.acc = 0]
    IN  IF s.mode = "NORMAL"
            \* back in Submap::insert: value = computeValue(key)
            THEN { [back EXCEPT !.ivalue = value, !.valueComputed = TRUE,
                                !.pc = "si_cas"] }
        \* back in CppMemo::run after the dry run
        ELSE IF s.groupSize = 0
            THEN { callInsert(back, s.ckey, value, FALSE, "r_drypop") }
        ELSE { [q EXCEPT !.pc = "r_loop"] : q \in finalizeGroup(t, back) }

\* hist.computed: the calls of Compute and of DeclarePrerequisites made since
\* getValue was entered, as
\* thread, key and the provider's mode ("DECLARE" for DeclarePrerequisites)
computeCalled(t, key, mode) ==
    hist' = [hist EXCEPT !.computed = @ \cup {<<t, key, mode>>}]

\* Compute(key, prerequisitesProvider) is entered
enterCompute(t, s, key) ==
    LET e == [s EXCEPT !.ckey = key, !.ci = 1, !.acc = 0] IN
    IF deps[key] = <<>> THEN computeDone(t, e) ELSE { [e EXCEPT !.pc = "c_step"] }

\* PrerequisitesProvider::operator(): one prerequisite is read
Compute_Step(t) ==
    LET s == th[t]
        key == deps[s.ckey][s.ci]
        findIt == find(key)
        got == IF findIt.found
                  THEN [s EXCEPT !.acc = @ + entryAt(findIt).value, !.ci = @ + 1]
               ELSE IF s.mode = "NORMAL"
                  THEN throw(s, "out_of_range")
               ELSE [push(s, key) EXCEPT !.acc = @ + dummyValue, !.ci = @ + 1]
        \* what the provider returned, and whether Compute returns on it
        provided == IF findIt.found THEN entryAt(findIt).value ELSE dummyValue
        returns == valueDependent /\ provided = dummyValue
    IN  /\ s.pc = "c_step"
        /\ ~findIt.found /\ s.mode = "DRY_RUN" => Len(s.items) < StackBound
        /\ IF got.exc # "none" THEN setThread(t, got)
           ELSE IF got.ci > Len(deps[s.ckey]) \/ returns
                THEN \E n \in computeDone(t, got) : setThread(t, n)
           ELSE setThread(t, got)
        /\ UNCHANGED <<mapVars, cfgVars, gv, hist>>

\* a gatherer that pushes nothing of what is declared
Declare_StepNoPush(t) ==
    LET s == th[t]
        got == [s EXCEPT !.ci = @ + 1]
        back == [got EXCEPT !.ckey = 0, !.ci = 0]
    IN  /\ s.pc = "d_step"
        /\ IF got.ci > Len(deps[s.ckey])
                THEN \E q \in finalizeGroup(t, back) :
                        setThread(t, [q EXCEPT !.pc = "r_loop"])
           ELSE setThread(t, got)
        /\ UNCHANGED <<mapVars, cfgVars, gv, hist>>

\* a run that goes back to its loop after DeclarePrerequisites without
\* stack.finalizeGroup()
Declare_StepNoFinalize(t) ==
    LET s == th[t]
        key == deps[s.ckey][s.ci]
        got == IF find(key).found THEN [s EXCEPT !.ci = @ + 1]
               ELSE [push(s, key) EXCEPT !.ci = @ + 1]
        back == [got EXCEPT !.ckey = 0, !.ci = 0]
    IN  /\ s.pc = "d_step"
        /\ IF got.exc # "none" THEN setThread(t, got)
           ELSE IF got.ci > Len(deps[s.ckey])
                THEN setThread(t, [back EXCEPT !.pc = "r_loop"])
           ELSE setThread(t, got)
        /\ UNCHANGED <<mapVars, cfgVars, gv, hist>>

\* PrerequisitesGatherer::operator(): one prerequisite is declared
Declare_Step(t) ==
    LET s == th[t]
        key == deps[s.ckey][s.ci]
        got == IF find(key).found THEN [s EXCEPT !.ci = @ + 1]
               ELSE [push(s, key) EXCEPT !.ci = @ + 1]
        back == [got EXCEPT !.ckey = 0, !.ci = 0]
    IN  /\ s.pc = "d_step"
        /\ ~find(key).found => Len(s.items) < StackBound
        /\ IF got.exc # "none" THEN setThread(t, got)
           ELSE IF got.ci > Len(deps[s.ckey])
                THEN \E q \in finalizeGroup(t, back) :
                        setThread(t, [q EXCEPT !.pc = "r_loop"])
           ELSE setThread(t, got)
        /\ UNCHANGED <<mapVars, cfgVars, gv, hist>>

(***************************************************************************)
(* Fcmm::insertHelper and Submap::insert.                                  *)
(***************************************************************************)
setBucket(subs, submapIndex, index, bucket) ==
    [subs EXCEPT ![submapIndex].buckets[index] = bucket]

\* insertHelper: the last submap's index is read and the submaps before it
\* are searched
IH_Snapshot(t) ==
    LET s == th[t]
        lastSubmapIndex == numSubmaps - 1
        findIterator == findHelper(submaps, s.ikey, lastSubmapIndex - 1)
    IN  /\ s.pc = "ih_loop"
        /\ IF lastSubmapIndex > 0 /\ findIterator.found
              THEN Return(t, s, findIterator, FALSE)
              ELSE /\ setThread(t, [s EXCEPT !.pc = "ih_overloaded",
                                             !.last = lastSubmapIndex])
                   /\ UNCHANGED hist
        /\ UNCHANGED <<mapVars, cfgVars, gv>>

\* insertHelper: lastSubmap.isOverloaded(); if not, Submap::insert is entered
IH_CheckOverloaded(t) ==
    LET s == th[t]
        lastSubmap == submaps[s.last]
    IN  /\ s.pc = "ih_overloaded"
        /\ IF isOverloaded(lastSubmap)
              THEN setThread(t, [s EXCEPT !.pc = "ex_spin"])
              ELSE setThread(t, [s EXCEPT !.pc = "si_load",
                                          !.valueComputed = FALSE,
                                          !.index = startIndexOf(lastSubmap, s.ikey)])
        /\ UNCHANGED <<mapVars, cfgVars, gv, hist>>

\* Submap::insert: the probe moves to the next bucket; back at the start
\* index the submap is full, insertHelper catches that and expands
advance(s) ==
    LET nxt == nextIndex(submaps[s.last], s.ikey, s.index) IN
    IF nxt = startIndexOf(submaps[s.last], s.ikey)
        THEN [s EXCEPT !.pc = "ex_spin", !.index = 0, !.valueComputed = FALSE]
        ELSE [s EXCEPT !.pc = "si_load", !.index = nxt]

\* a Submap::insert that passes a VALID bucket without comparing its key
SeenValidNoCompare(t, s) ==
    setThread(t, advance(s)) /\ UNCHANGED hist

\* Submap::insert: the bucket was seen VALID; its key is compared
SeenValid(t, s) ==
    IF submaps[s.last].buckets[s.index].key = s.ikey
        THEN Return(t, s, [found |-> TRUE, submapIndex |-> s.last,
                           bucketIndex |-> s.index], FALSE)
        ELSE setThread(t, advance(s)) /\ UNCHANGED hist

\* a Submap::insert that, at the first EMPTY bucket, computes the value and
\* moves on to the next bucket
SI_LoadSkipEmpty(t) ==
    LET s == th[t]
        bucketState == submaps[s.last].buckets[s.index].state
        counted == [s EXCEPT !.res.computeCalls = @ + 1, !.valueComputed = TRUE]
    IN  /\ s.pc = "si_load"
        /\ CASE bucketState = "EMPTY" ->
                  /\ IF s.valueComputed
                        THEN setThread(t, [s EXCEPT !.pc = "si_cas"])
                        ELSE setThread(t, advance(counted))
                  /\ UNCHANGED hist
             [] bucketState = "VALID" -> SeenValid(t, s)
             [] OTHER -> setThread(t, [s EXCEPT !.pc = "si_reload"])
                         /\ UNCHANGED hist
        /\ UNCHANGED <<mapVars, cfgVars, gv>>

\* Submap::insert: bucket.state.load(); on EMPTY the value is computed, once
SI_Load(t) ==
    LET s == th[t]
        bucketState == submaps[s.last].buckets[s.index].state
        counted == [s EXCEPT !.res.computeCalls = @ + 1]
    IN  /\ s.pc = "si_load"
        /\ CASE bucketState = "EMPTY" ->
                  /\ IF s.valueComputed
                        THEN setThread(t, [s EXCEPT !.pc = "si_cas"])
                             /\ UNCHANGED hist
                     ELSE IF s.lazy
                        THEN /\ \E n \in enterCompute(t, counted, s.ikey) :
                                    setThread(t, n)
                             /\ computeCalled(t, s.ikey, s.mode)
                     ELSE /\ setThread(t, [counted EXCEPT !.valueComputed = TRUE,
                                                          !.pc = "si_cas"])
                          /\ UNCHANGED hist
             [] bucketState = "VALID" -> SeenValid(t, s)
             [] OTHER -> setThread(t, [s EXCEPT !.pc = "si_reload"])
                         /\ UNCHANGED hist
        /\ UNCHANGED <<mapVars, cfgVars, gv>>

\* a Submap::insert that stores BUSY without comparing
SI_CasBlind(t) ==
    LET s == th[t]
        bucket == submaps[s.last].buckets[s.index]
    IN  /\ s.pc = "si_cas"
        /\ submaps' = setBucket(submaps, s.last, s.index,
                                [bucket EXCEPT !.state = "BUSY"])
        /\ setThread(t, [s EXCEPT !.pc = "si_write"])
        /\ UNCHANGED <<numSubmaps, numEntries, expanding, cfgVars, gv, hist>>

\* Submap::insert: compare_exchange_strong(EMPTY -> BUSY)
SI_Cas(t) ==
    LET s == th[t]
        bucket == submaps[s.last].buckets[s.index]
    IN  /\ s.pc = "si_cas"
        /\ CASE bucket.state = "EMPTY" ->
                  /\ submaps' = setBucket(submaps, s.last, s.index,
                                          [bucket EXCEPT !.state = "BUSY"])
                  /\ setThread(t, [s EXCEPT !.pc = "si_write"])
                  /\ UNCHANGED hist
             [] bucket.state = "VALID" -> SeenValid(t, s) /\ UNCHANGED submaps
             [] OTHER -> /\ setThread(t, [s EXCEPT !.pc = "si_reload"])
                         /\ UNCHANGED <<submaps, hist>>
        /\ UNCHANGED <<numSubmaps, numEntries, expanding, cfgVars, gv>>

\* Submap::insert: the state, seen BUSY, is loaded once more
SI_Reload(t) ==
    LET s == th[t]
        bucketState == submaps[s.last].buckets[s.index].state
    IN  /\ s.pc = "si_reload"
        /\ IF bucketState = "VALID" THEN SeenValid(t, s)
           ELSE setThread(t, advance(s)) /\ UNCHANGED hist
        /\ UNCHANGED <<mapVars, cfgVars, gv>>

\* a Submap::insert that writes the key and leaves the value for later
SI_WriteKeyOnly(t) ==
    LET s == th[t]
        bucket == submaps[s.last].buckets[s.index]
    IN  /\ s.pc = "si_write"
        /\ submaps' = setBucket(submaps, s.last, s.index,
                                [bucket EXCEPT !.key = s.ikey])
        /\ setThread(t, [s EXCEPT !.pc = "si_publish"])
        /\ UNCHANGED <<numSubmaps, numEntries, expanding, cfgVars, gv, hist>>

\* Submap::insert: bucket.entry.first = key; bucket.entry.second = value
SI_Write(t) ==
    LET s == th[t]
        bucket == submaps[s.last].buckets[s.index]
    IN  /\ s.pc = "si_write"
        /\ submaps' = setBucket(submaps, s.last, s.index,
                                [bucket EXCEPT !.key = s.ikey, !.value = s.ivalue])
        /\ setThread(t, [s EXCEPT !.pc = "si_publish"])
        /\ UNCHANGED <<numSubmaps, numEntries, expanding, cfgVars, gv, hist>>

\* Submap::insert: bucket.state.store(VALID)
SI_Publish(t) ==
    LET s == th[t]
        bucket == submaps[s.last].buckets[s.index]
    IN  /\ s.pc = "si_publish"
        /\ submaps' = setBucket(submaps, s.last, s.index,
                                [bucket EXCEPT !.state = "VALID"])
        /\ setThread(t, [s EXCEPT !.pc = "si_incvalid"])
        /\ UNCHANGED <<numSubmaps, numEntries, expanding, cfgVars, gv, hist>>

\* Submap::insert: incrementNumValidBuckets()
SI_IncValid(t) ==
    LET s == th[t] IN
        /\ s.pc = "si_incvalid"
        /\ submaps' = [submaps EXCEPT ![s.last].numValidBuckets = @ + 1]
        /\ setThread(t, [s EXCEPT !.pc = "ih_incentries"])
        /\ UNCHANGED <<numSubmaps, numEntries, expanding, cfgVars, gv, hist>>

\* an insertHelper that returns the new entry and leaves numEntries alone
IH_NoIncEntries(t) ==
    LET s == th[t] IN
        /\ s.pc = "ih_incentries"
        /\ Return(t, s, [found |-> TRUE, submapIndex |-> s.last,
                        bucketIndex |-> s.index], TRUE)
        /\ UNCHANGED <<mapVars, cfgVars, gv>>

\* insertHelper: incrementNumEntries(), and the new entry is returned
IH_IncEntries(t) ==
    LET s == th[t] IN
        /\ s.pc = "ih_incentries"
        /\ numEntries' = numEntries + 1
        /\ Return(t, [s EXCEPT !.res.incremented = TRUE],
                  [found |-> TRUE, submapIndex |-> s.last, bucketIndex |-> s.index],
                  TRUE)
        /\ UNCHANGED <<submaps, numSubmaps, expanding, cfgVars, gv>>

(***************************************************************************)
(* Fcmm::expand.                                                           *)
(***************************************************************************)
\* an expand that sets the flag without testing it
EX_SpinNoTest(t) ==
    LET s == th[t] IN
        /\ s.pc = "ex_spin"
        /\ expanding' = TRUE
        /\ setThread(t, [s EXCEPT !.pc = "ex_snapshot"])
        /\ UNCHANGED <<submaps, numSubmaps, numEntries, cfgVars, gv, hist>>

\* expanding.test_and_set(): the thread yields and tries again while it is set
EX_Spin(t) ==
    LET s == th[t] IN
        /\ s.pc = "ex_spin"
        /\ ~expanding
        /\ expanding' = TRUE
        /\ setThread(t, [s EXCEPT !.pc = "ex_snapshot"])
        /\ UNCHANGED <<submaps, numSubmaps, numEntries, cfgVars, gv, hist>>

\* getNumSubmaps(), compared with the maximum number of submaps
EX_Snapshot(t) ==
    LET s == th[t] IN
        /\ s.pc = "ex_snapshot"
        /\ IF numSubmaps = maxNumSubmaps
              THEN setThread(t, throw(s, "runtime_error"))
              ELSE setThread(t, [s EXCEPT !.pc = "ex_check", !.snap = numSubmaps])
        /\ UNCHANGED <<mapVars, cfgVars, gv, hist>>

\* an expand that goes on to incrementNumSubmaps() without allocating the slot
EX_CheckNoReset(t) ==
    LET s == th[t]
        lastSubmap == submaps[s.snap - 1]
    IN  /\ s.pc = "ex_check"
        /\ setThread(t, [s EXCEPT !.pc = IF isOverloaded(lastSubmap)
                                             THEN "ex_publish" ELSE "ex_clear"])
        /\ UNCHANGED <<mapVars, cfgVars, gv, hist>>

\* the last submap is checked again; if overloaded the next slot is allocated
EX_Check(t) ==
    LET s == th[t]
        lastSubmapIndex == s.snap - 1
        lastSubmap == submaps[lastSubmapIndex]
        newSubmapCapacity ==
            fcmmNextPrime(getCapacity(lastSubmap) * FCMM_NEW_SUBMAPS_CAPACITY_MULTIPLIER)
    IN  /\ s.pc = "ex_check"
        /\ IF isOverloaded(lastSubmap)
              THEN /\ submaps' = [i \in 0 .. (lastSubmapIndex + 1) |->
                                    IF i = lastSubmapIndex + 1
                                        THEN NewSubmap(newSubmapCapacity)
                                        ELSE submaps[i]]
                   /\ setThread(t, [s EXCEPT !.pc = "ex_publish"])
              ELSE /\ setThread(t, [s EXCEPT !.pc = "ex_clear"])
                   /\ UNCHANGED submaps
        /\ UNCHANGED <<numSubmaps, numEntries, expanding, cfgVars, gv, hist>>

\* incrementNumSubmaps()
EX_Publish(t) ==
    LET s == th[t] IN
        /\ s.pc = "ex_publish"
        /\ numSubmaps' = numSubmaps + 1
        /\ setThread(t, [s EXCEPT !.pc = "ex_clear"])
        /\ UNCHANGED <<submaps, numEntries, expanding, cfgVars, gv, hist>>

\* expanding.clear(); insertHelper starts over
EX_Clear(t) ==
    LET s == th[t] IN
        /\ s.pc = "ex_clear"
        /\ expanding' = FALSE
        /\ setThread(t, [s EXCEPT !.pc = "ih_loop", !.snap = 0, !.last = 0])
        /\ UNCHANGED <<submaps, numSubmaps, numEntries, cfgVars, gv, hist>>

(***************************************************************************)
(* CppMemo::run, one worker thread's loop.                                 *)
(***************************************************************************)
\* a run that starts its loop without pushing the key
Run_StartNoPush(t) ==
    LET s == th[t] IN
        /\ s.pc = "r_start"
        /\ setThread(t, [s EXCEPT !.pc = "r_loop"])
        /\ UNCHANGED <<mapVars, cfgVars, gv, hist>>

\* stack.push(key); stack.finalizeGroup()
Run_Start(t) ==
    LET s == th[t]
        pushed == push(s, gv.key)
    IN  /\ s.pc = "r_start"
        /\ IF pushed.exc # "none" THEN setThread(t, pushed)
           ELSE \E q \in finalizeGroup(t, pushed) :
                    setThread(t, [q EXCEPT !.pc = "r_loop"])
        /\ UNCHANGED <<mapVars, cfgVars, gv, hist>>

\* one turn of the loop, up to its first access to the map.  A ready item
\* is inserted (and then popped, in afterInsert); an item seen for the first
\* time is marked ready and looked up, and if it is not there yet its
\* prerequisites are gathered
Run_Loop(t) ==
    LET s == th[t]
        n == Len(s.items)
        item == s.items[n]
        marked == [s EXCEPT !.items[n].ready = TRUE]
        dryRun == s.items # <<>> /\ ~item.ready /\ ~find(item.key).found
                  /\ ~gv.declare
        declares == s.items # <<>> /\ ~item.ready /\ ~find(item.key).found
                    /\ gv.declare
    IN  /\ s.pc = "r_loop"
        /\ IF s.items = <<>>
              THEN setThread(t, [s EXCEPT !.pc = "done"])
           ELSE IF item.ready
              THEN setThread(t, callInsert([s EXCEPT !.mode = "NORMAL"],
                                           item.key, 0, TRUE, "r_pop"))
           ELSE IF find(item.key).found
              THEN setThread(t, marked)
           ELSE IF gv.declare
              THEN IF deps[item.key] = <<>>
                      THEN \E q \in finalizeGroup(t, marked) : setThread(t, q)
                      ELSE setThread(t, [marked EXCEPT !.pc = "d_step",
                                                       !.ckey = item.key, !.ci = 1])
           ELSE \E q \in enterCompute(t, [marked EXCEPT !.mode = "DRY_RUN"], item.key) :
                    setThread(t, q)
        /\ IF dryRun THEN computeCalled(t, item.key, "DRY_RUN")
           ELSE IF declares THEN computeCalled(t, item.key, "DECLARE")
           ELSE UNCHANGED hist
        /\ UNCHANGED <<mapVars, cfgVars, gv>>

(***************************************************************************)
(* CppMemo::getValue(key, compute, declarePrerequisites, numThreads,       *)
(* providedDeclarePrerequisites).                                          *)
(***************************************************************************)
NoCall == [pc |-> "idle", key |-> 0, numThreads |-> 0, declare |-> FALSE,
           result |-> 0, exc |-> "none", keysStack |-> <<>>]

\* hist.read: what the last call gave, if it was the read-only getValue(key)
NoRead == [op |-> "none", key |-> 0, value |-> 0]

\* hist.config: what the last call gave, if it was the constructor,
\* setDefaultNumThreads or getDefaultNumThreads
NoConfig == [op |-> "none", arg |-> 0, exc |-> "none", got |-> 0]

\* a getValue that starts its workers without looking the key up
getValueNoLookup(key, numThreads, declare) ==
    /\ gv' = [NoCall EXCEPT !.key = key, !.numThreads = numThreads,
                            !.declare = declare, !.pc = "running"]
    /\ th' = [t \in Threads |->
                IF t < numThreads THEN [NoThread EXCEPT !.pc = "r_start"]
                                  ELSE th[t]]
    /\ hist' = [hist EXCEPT !.read = NoRead, !.config = NoConfig,
                             !.computed = {}]
    /\ UNCHANGED <<mapVars, cfgVars>>

\* getValue up to the start of its workers: the key is looked up; if it is
\* not there the workers start (numThreads > 1) or run is called in the
\* caller's thread (as thread 0)
getValue(key, numThreads, declare) ==
    LET findIt == find(key)
        call == [NoCall EXCEPT !.key = key, !.numThreads = numThreads,
                               !.declare = declare]
    IN  /\ IF findIt.found
              THEN /\ gv' = [call EXCEPT !.pc = "returned",
                                         !.result = entryAt(findIt).value]
                   /\ UNCHANGED th
              ELSE /\ gv' = [call EXCEPT !.pc = "running"]
                   /\ th' = [t \in Threads |->
                               IF t < numThreads
                                  THEN [NoThread EXCEPT !.pc = "r_start"]
                                  ELSE th[t]]
        /\ hist' = [hist EXCEPT !.read = NoRead, !.config = NoConfig,
                             !.computed = {}]
        /\ UNCHANGED <<mapVars, cfgVars>>

Workers == { t \in Threads : t < gv.numThreads }

\* the first call, for the root key
GV_Enter ==
    \E numThreads \in 1 .. Cardinality(Threads), declare \in BOOLEAN :
        /\ gv.pc = "idle"
        /\ getValue(MaxKey, numThreads, declare)

\* a further call, for any key, after a call has returned
GV_Again ==
    \E key \in Keys, numThreads \in 1 .. Cardinality(Threads), declare \in BOOLEAN :
        /\ gv.pc = "returned"
        /\ getValue(key, numThreads, declare)

\* the call without numThreads: getValue(key, compute[, declare]) starts
\* defaultNumThreads threads
GV_EnterDefault ==
    \E declare \in BOOLEAN :
        /\ gv.pc = "idle"
        /\ getValue(MaxKey, defaultNumThreads, declare)

\* a setDefaultNumThreads that stores whatever it is given
setDefaultNumThreadsNoCheck(n) ==
    /\ defaultNumThreads' = n
    /\ hist' = [hist EXCEPT !.config = [NoConfig EXCEPT !.op = "set", !.arg = n]]

\* setDefaultNumThreads(n)
setDefaultNumThreads(n) ==
    IF n < 1
        THEN /\ hist' = [hist EXCEPT !.config =
                            [NoConfig EXCEPT !.op = "set", !.arg = n,
                                             !.exc = "logic_error"]]
             /\ UNCHANGED defaultNumThreads
        ELSE /\ defaultNumThreads' = n
             /\ hist' = [hist EXCEPT !.config =
                            [NoConfig EXCEPT !.op = "set", !.arg = n]]

\* the numbers of threads a caller asks for: none too many for Threads, and
\* some below 1
NumThreadsArgs == -1 .. Cardinality(Threads)

CFG_Set ==
    \E n \in NumThreadsArgs :
        /\ gv.pc = "idle"
        /\ setDefaultNumThreads(n)
        /\ UNCHANGED <<mapVars, maxNumSubmaps, deps, detectCircularDependencies,
                       valueDependent, gv, th>>

\* getDefaultNumThreads()
CFG_Get ==
    /\ gv.pc = "idle"
    /\ hist' = [hist EXCEPT !.config =
                   [NoConfig EXCEPT !.op = "get", !.got = defaultNumThreads]]
    /\ UNCHANGED <<mapVars, cfgVars, gv, th>>

\* a read-only getValue that gives the dummy value for a key not memoized
GV_ReadOnlyDefault ==
    \E key \in Keys :
        LET findIt == find(key) IN
            /\ gv.pc \in {"idle", "returned"}
            /\ hist' = [hist EXCEPT !.read =
                           [op |-> "returned", key |-> key,
                            value |-> IF findIt.found THEN entryAt(findIt).value
                                                      ELSE dummyValue]]
            /\ UNCHANGED <<mapVars, cfgVars, gv, th>>

\* getValue(key) const, between calls: the value, or std::logic_error
GV_ReadOnly ==
    \E key \in Keys :
        LET findIt == find(key) IN
            /\ gv.pc \in {"idle", "returned"}
            /\ hist' = [hist EXCEPT !.read =
                           IF findIt.found
                              THEN [op |-> "returned", key |-> key,
                                    value |-> entryAt(findIt).value]
                              ELSE [op |-> "logic_error", key |-> key,
                                    value |-> 0]]
            /\ UNCHANGED <<mapVars, cfgVars, gv, th>>

\* every worker has left run (joined, or run returned): return values[key]
GV_Return ==
    LET findIt == find(gv.key) IN
        /\ gv.pc = "running"
        /\ \A t \in Workers : th[t].pc = "done"
        /\ gv' = IF findIt.found
                    THEN [gv EXCEPT !.pc = "returned", !.result = entryAt(findIt).value]
                    ELSE [gv EXCEPT !.pc = "threw", !.exc = "out_of_range"]
        /\ UNCHANGED <<mapVars, cfgVars, th, hist>>

\* an exception leaves run.  Called in the caller's thread it leaves getValue
\* too; leaving a std::thread's function it ends the process (std::terminate)
GV_Unwind ==
    \E t \in Workers :
        /\ gv.pc = "running"
        /\ th[t].pc = "threw"
        /\ IF gv.numThreads > 1
              THEN /\ gv' = [gv EXCEPT !.pc = "terminated"]
                   /\ th' = [u \in Threads |->
                               IF u \in Workers /\ u # t
                                  THEN [NoThread EXCEPT !.pc = "killed"]
                                  ELSE th[u]]
              ELSE /\ gv' = [gv EXCEPT !.pc = "threw", !.exc = th[t].exc,
                                       !.keysStack = th[t].keysStack]
                   /\ UNCHANGED th
        /\ UNCHANGED <<mapVars, cfgVars, hist>>

(***************************************************************************)
(* Direct users of the map: threads calling Fcmm::insert, find, begin/end. *)
(***************************************************************************)
\* insStarted: per key, the insert calls made so far; insReturned: the keys
\* an insert call has returned for; returned: the keys a call has returned an
\* entry for; yielded: what the last iteration yielded, if the map has not
\* been written since
\* filtered: the map the last filter or clone returned, and its predicate
NoFiltered == [op |-> "none", keep |-> {}, map |-> <<>>]

NoHist == [insStarted |-> [k \in MapKeys |-> 0], insReturned |-> {},
           returned |-> {}, iterated |-> FALSE, yielded |-> <<>>,
           filtered |-> NoFiltered, read |-> NoRead, config |-> NoConfig,
           computed |-> {}]

Quiescent == \A t \in Threads : th[t].pc \in {"idle", "off", "done"}

\* map.insert(std::make_pair(key, ValueOf(key))): the call is made
Client_Insert(t) ==
    \E key \in MapKeys :
        LET s == th[t]
            call == callInsert([s EXCEPT !.opsLeft = @ - 1], key, ValueOf(key),
                               FALSE, "client")
        IN  /\ s.pc = "idle"
            /\ s.opsLeft > 0
            /\ setThread(t, [call EXCEPT
                                !.res = [NoRes EXCEPT !.op = "insert", !.key = key,
                                            !.after = key \in hist.insReturned]])
            /\ hist' = [hist EXCEPT !.insStarted[key] = @ + 1,
                                    !.iterated = FALSE, !.yielded = <<>>,
                                    !.filtered = NoFiltered]
            /\ UNCHANGED <<mapVars, cfgVars, gv>>

\* map.find(key), between two of the thread's insert calls or after them
Client_Find(t) ==
    \E key \in MapKeys :
        LET s == th[t]
            findIt == find(key)
            res == [NoRes EXCEPT !.op = "find", !.key = key,
                                 !.after = key \in hist.returned,
                                 !.found = findIt.found]
        IN  /\ s.pc = "idle"
            /\ setThread(t, [s EXCEPT
                    !.it = IF findIt.found THEN iteratorAt(findIt)
                                           ELSE [NoIterator EXCEPT !.end = TRUE],
                    !.res = IF findIt.found
                               THEN [res EXCEPT !.itKey = entryAt(findIt).key,
                                                !.itValue = entryAt(findIt).value]
                               ELSE res])
            /\ hist' = IF findIt.found
                          THEN [hist EXCEPT !.returned = @ \cup {key}]
                          ELSE hist
            /\ UNCHANGED <<mapVars, cfgVars, gv>>

\* for (const Entry& entry : map), while no insert is in progress
Client_Iterate ==
    /\ gv.pc = "map"
    /\ Quiescent
    /\ ~hist.iterated
    /\ hist' = [hist EXCEPT !.iterated = TRUE, !.yielded = iterate]
    /\ UNCHANGED <<mapVars, cfgVars, gv, th>>

(***************************************************************************)
(* Fcmm::filter and Fcmm::clone.  The new map is the caller's own until    *)
(* filter returns it, so that the inserts into it run alone: insertNew is  *)
(* insertHelper, Submap::insert and expand as one thread runs them.        *)
(***************************************************************************)
\* a map as a value
thisMap == [submaps |-> submaps, numSubmaps |-> numSubmaps,
            numEntries |-> numEntries]

\* new Fcmm(estimatedNumEntries)
newFcmm(estimatedNumEntries) ==
    [submaps |-> [i \in 0 .. 0 |->
                    NewSubmap(firstSubmapCapacity(estimatedNumEntries))],
     numSubmaps |-> 1, numEntries |-> 0]

\* for (const Entry& entry : map): the entries in the order of iteration
entriesOf(m) ==
    LET its == iterateFrom(m.submaps, m.numSubmaps, 0, 0) IN
    [i \in 1 .. Len(its) |->
        m.submaps[its[i].submapIndex].buckets[its[i].bucketIndex]]

\* a Submap::insert that takes the first EMPTY bucket and compares no key
RECURSIVE submapInsertNoCompare(_, _, _, _)
submapInsertNoCompare(sm, key, value, index) ==
    LET bucket == sm.buckets[index]
        nxt == nextIndex(sm, key, index)
    IN  IF bucket.state = "EMPTY"
            THEN [full |-> FALSE, inserted |-> TRUE,
                  submap |-> [sm EXCEPT
                      !.buckets[index] = [state |-> "VALID", key |-> key,
                                          value |-> value],
                      !.numValidBuckets = @ + 1]]
        ELSE IF nxt = startIndexOf(sm, key)
            THEN [full |-> TRUE, inserted |-> FALSE, submap |-> sm]
        ELSE submapInsertNoCompare(sm, key, value, nxt)

\* Submap::insert run alone, from the bucket at index on
RECURSIVE submapInsertFrom(_, _, _, _)
submapInsertFrom(sm, key, value, index) ==
    LET bucket == sm.buckets[index]
        nxt == nextIndex(sm, key, index)
    IN  IF bucket.state = "EMPTY"
            THEN [full |-> FALSE, inserted |-> TRUE,
                  submap |-> [sm EXCEPT
                      !.buckets[index] = [state |-> "VALID", key |-> key,
                                          value |-> value],
                      !.numValidBuckets = @ + 1]]
        ELSE IF bucket.state = "VALID" /\ bucket.key = key
            THEN [full |-> FALSE, inserted |-> FALSE, submap |-> sm]
        ELSE IF nxt = startIndexOf(sm, key)
            THEN [full |-> TRUE, inserted |-> FALSE, submap |-> sm]
        ELSE submapInsertFrom(sm, key, value, nxt)

\* expand run alone, below the maximum number of submaps
expandNew(m) ==
    LET lastSubmap == m.submaps[m.numSubmaps - 1]
        newSubmapCapacity ==
            fcmmNextPrime(getCapacity(lastSubmap) * FCMM_NEW_SUBMAPS_CAPACITY_MULTIPLIER)
    IN  IF isOverloaded(lastSubmap)
            THEN [m EXCEPT !.submaps = [i \in 0 .. m.numSubmaps |->
                                          IF i = m.numSubmaps
                                              THEN NewSubmap(newSubmapCapacity)
                                              ELSE m.submaps[i]],
                           !.numSubmaps = @ + 1]
            ELSE m

\* map->insert(entry) run alone
RECURSIVE insertNew(_, _, _)
insertNew(m, key, value) ==
    LET lastSubmapIndex == m.numSubmaps - 1
        lastSubmap == m.submaps[lastSubmapIndex]
        insertResult == submapInsertFrom(lastSubmap, key, value,
                                         startIndexOf(lastSubmap, key))
    IN  IF lastSubmapIndex > 0
           /\ findHelper(m.submaps, key, lastSubmapIndex - 1).found
            THEN m
        ELSE IF isOverloaded(lastSubmap) \/ insertResult.full
            THEN insertNew(expandNew(m), key, value)
        ELSE [m EXCEPT !.submaps[lastSubmapIndex] = insertResult.submap,
                       !.numEntries = IF insertResult.inserted THEN @ + 1 ELSE @]

\* the loop of filter from the i-th entry on; filterFunction(entry) is
\* "the entry's key is in keep"
RECURSIVE filterFrom(_, _, _, _)
filterFrom(entries, i, keep, map) ==
    IF i > Len(entries) THEN map
    ELSE filterFrom(entries, i + 1, keep,
                    IF entries[i].key \in keep
                        THEN insertNew(map, entries[i].key, entries[i].value)
                        ELSE map)

\* a filter that keeps every entry
filterKeepAll(m, keep) ==
    filterFrom(entriesOf(m), 1, MapKeys, newFcmm(m.numEntries))

filter(m, keep) == filterFrom(entriesOf(m), 1, keep, newFcmm(m.numEntries))

\* dummyFilterFunction returns true
clone(m) == filter(m, MapKeys)

\* map.filter(filterFunction), while no insert is in progress
Client_Filter ==
    \E keep \in SUBSET MapKeys :
        /\ gv.pc = "map"
        /\ Quiescent
        /\ hist.filtered.op = "none"
        /\ hist' = [hist EXCEPT !.filtered = [op |-> "filter", keep |-> keep,
                                              map |-> filter(thisMap, keep)]]
        /\ UNCHANGED <<mapVars, cfgVars, gv, th>>

\* map.clone(), while no insert is in progress
Client_Clone ==
    /\ gv.pc = "map"
    /\ Quiescent
    /\ hist.filtered.op = "none"
    /\ hist' = [hist EXCEPT !.filtered = [op |-> "clone", keep |-> MapKeys,
                                          map |-> clone(thisMap)]]
    /\ UNCHANGED <<mapVars, cfgVars, gv, th>>

(***************************************************************************)
(* A thread iterating over the map while another inserts.                  *)
(***************************************************************************)
\* map.begin(): const_iterator(map) starts to seek at submap 0, bucket 0
It_Begin(t) ==
    LET s == th[t] IN
        /\ s.pc = "idle"
        /\ setThread(t, [s EXCEPT !.pc = "it_seek", !.it = NoIterator])
        /\ UNCHANGED <<mapVars, cfgVars, gv, hist>>

\* ++it on an iterator that designates an entry: next() increments
\* bucketIndex and seeks
It_Next(t) ==
    LET s == th[t] IN
        /\ s.pc = "idle"
        /\ s.it.held /\ ~s.it.end
        /\ setThread(t, [s EXCEPT !.pc = "it_seek",
                                  !.it = [NoIterator EXCEPT
                                            !.submapIndex = s.it.submapIndex,
                                            !.bucketIndex = s.it.bucketIndex + 1]])
        /\ UNCHANGED <<mapVars, cfgVars, gv, hist>>

\* a seek that stops at the first bucket that is not EMPTY
It_SeekNotEmpty(t) ==
    LET s == th[t]
        it == s.it
        submap == submaps[it.submapIndex]
    IN  /\ s.pc = "it_seek"
        /\ IF it.bucketIndex < getCapacity(submap)
              THEN IF submap.buckets[it.bucketIndex].state # "EMPTY"
                      THEN setThread(t, [s EXCEPT !.pc = "idle",
                                                  !.it = iteratorAt(it)])
                      ELSE setThread(t, [s EXCEPT !.it.bucketIndex = @ + 1])
           ELSE IF it.submapIndex + 1 > numSubmaps - 1
              THEN setThread(t, [s EXCEPT !.pc = "idle",
                                          !.it = [NoIterator EXCEPT !.end = TRUE]])
           ELSE setThread(t, [s EXCEPT !.it.submapIndex = @ + 1,
                                       !.it.bucketIndex = 0])
        /\ UNCHANGED <<mapVars, cfgVars, gv, hist>>

\* const_iterator::seek and Submap::seek: one bucket's state is loaded, or,
\* past the submap's last bucket, getLastSubmapIndex() is read
It_Seek(t) ==
    LET s == th[t]
        it == s.it
        submap == submaps[it.submapIndex]
    IN  /\ s.pc = "it_seek"
        /\ IF it.bucketIndex < getCapacity(submap)
              THEN IF submap.buckets[it.bucketIndex].state = "VALID"
                      THEN setThread(t, [s EXCEPT !.pc = "idle",
                                                  !.it = iteratorAt(it)])
                      ELSE setThread(t, [s EXCEPT !.it.bucketIndex = @ + 1])
           ELSE IF it.submapIndex + 1 > numSubmaps - 1
              THEN setThread(t, [s EXCEPT !.pc = "idle",
                                          !.it = [NoIterator EXCEPT !.end = TRUE]])
           ELSE setThread(t, [s EXCEPT !.it.submapIndex = @ + 1,
                                       !.it.bucketIndex = 0])
        /\ UNCHANGED <<mapVars, cfgVars, gv, hist>>

(***************************************************************************)
(* The specifications.                                                     *)
(***************************************************************************)
\* Dependency graphs over 0 .. MaxKey in which a key reads smaller keys only:
\* a chain, Fibonacci's graph in both orders, a key read twice
ChainGraph == [k \in Keys |-> IF k = 0 THEN <<>> ELSE <<k - 1>>]
FibGraph == [k \in Keys |-> IF k = 0 THEN <<>> ELSE IF k = 1 THEN <<0>>
                                                ELSE <<k - 1, k - 2>>]
FibRevGraph == [k \in Keys |-> IF k = 0 THEN <<>> ELSE IF k = 1 THEN <<0>>
                                                   ELSE <<k - 2, k - 1>>]
TwiceGraph == [k \in Keys |-> IF k = 0 THEN <<>> ELSE <<k - 1, k - 1>>]
NamedGraphs == {ChainGraph, FibGraph, FibRevGraph, TwiceGraph}

SeqsUpTo(S, n) == UNION { [1 .. m -> S] : m \in 0 .. n }

\* every graph in which a key reads at most MaxDeps smaller keys
AllGraphs ==
    { d \in [Keys -> SeqsUpTo(Keys, MaxDeps)] :
        \A k \in Keys : \A i \in 1 .. Len(d[k]) : d[k][i] < k }

\* Every acyclic graph over up to three keys; over more keys, where they are
\* too many to run through, the named ones.
AcyclicGraphs == IF MaxKey <= 2 THEN AllGraphs ELSE NamedGraphs

\* Fcmm(estimatedNumEntries = 0): one empty submap
InitMap ==
    /\ submaps = [i \in 0 .. 0 |-> NewSubmap(firstSubmapCapacity(0))]
    /\ numSubmaps = 1
    /\ numEntries = 0
    /\ expanding = FALSE
    /\ maxNumSubmaps = FCMM_DEFAULT_MAX_NUM_SUBMAPS

\* a CppMemo just constructed, with or without circular dependency detection
Init ==
    /\ InitMap
    /\ th = [t \in Threads |-> NoThread]
    /\ deps \in AcyclicGraphs
    /\ detectCircularDependencies \in BOOLEAN
    /\ defaultNumThreads = 1
    /\ valueDependent = FALSE
    /\ gv = NoCall
    /\ hist = NoHist

MapStep(t) ==
    \/ IH_Snapshot(t) \/ IH_CheckOverloaded(t)
    \/ SI_Load(t) \/ SI_Cas(t) \/ SI_Reload(t)
    \/ SI_Write(t) \/ SI_Publish(t) \/ SI_IncValid(t) \/ IH_IncEntries(t)
    \/ EX_Spin(t) \/ EX_Snapshot(t) \/ EX_Check(t) \/ EX_Publish(t) \/ EX_Clear(t)

WorkerStep(t) ==
    \/ Run_Start(t) \/ Run_Loop(t) \/ Declare_Step(t) \/ Compute_Step(t)
    \/ MapStep(t)

Next ==
    \/ GV_Enter
    \/ \E t \in Threads : WorkerStep(t)
    \/ GV_Return
    \/ GV_Unwind

Spec == Init /\ [][Next]_vars

\* a CppMemo used for several calls, the read-only getValue among them
NextCalls == Next \/ GV_Again \/ GV_ReadOnly

SpecCalls == Init /\ [][NextCalls]_vars

\* CppMemo(defaultNumThreads, 0, detectCircularDependencies): the
\* constructor calls setDefaultNumThreads, and where that throws there is
\* no object
InitConfig ==
    /\ InitMap
    /\ th = [t \in Threads |-> NoThread]
    /\ deps \in NamedGraphs
    /\ detectCircularDependencies \in BOOLEAN
    /\ valueDependent = FALSE
    /\ \E n \in NumThreadsArgs :
          IF n < 1
             THEN /\ defaultNumThreads = 0
                  /\ gv = [NoCall EXCEPT !.pc = "unconstructed"]
                  /\ hist = [NoHist EXCEPT !.config =
                                [NoConfig EXCEPT !.op = "constructor", !.arg = n,
                                                 !.exc = "logic_error"]]
             ELSE /\ defaultNumThreads = n
                  /\ gv = NoCall
                  /\ hist = [NoHist EXCEPT !.config =
                                [NoConfig EXCEPT !.op = "constructor", !.arg = n]]

NextConfig ==
    \/ CFG_Set
    \/ CFG_Get
    \/ GV_EnterDefault
    \/ \E t \in Threads : WorkerStep(t)
    \/ GV_Return
    \/ GV_Unwind

SpecConfig == InitConfig /\ [][NextConfig]_vars

\* a CppMemo without circular dependency detection and a Compute whose
\* requests depend on the values it is given
InitValueDependent ==
    /\ InitMap
    /\ th = [t \in Threads |-> NoThread]
    /\ deps \in AcyclicGraphs
    /\ detectCircularDependencies = FALSE
    /\ defaultNumThreads = 1
    /\ valueDependent = TRUE
    /\ gv = NoCall
    /\ hist = NoHist

SpecValueDependent == InitValueDependent /\ [][Next]_vars

\* Graphs with a cycle the root MaxKey reaches: the root reads itself; every
\* key reads the key below it and key 0 the root; the same with key 0 reading
\* the key below the root (the graph of examples/cycle_check.cpp: a chain
\* that runs into a cycle); the root reads 0, which reads nothing, and 1,
\* which reads the root
SelfLoopGraph == [k \in Keys |-> IF k = MaxKey THEN <<k>> ELSE <<>>]
RingGraph == [k \in Keys |-> IF k = 0 THEN <<MaxKey>> ELSE <<k - 1>>]
TailLoopGraph == [k \in Keys |-> IF k = 0 THEN <<MaxKey - 1>> ELSE <<k - 1>>]
SiblingLoopGraph == [k \in Keys |-> IF k = MaxKey THEN <<0, 1>>
                                    ELSE IF k = 1 THEN <<MaxKey>> ELSE <<>>]
CyclicGraphs == {SelfLoopGraph, RingGraph, TailLoopGraph, SiblingLoopGraph}

\* the keys that the keys of S read
Succ(d, S) == UNION { { d[k][i] : i \in 1 .. Len(d[k]) } : k \in S }

RECURSIVE Closure(_, _)
Closure(d, S) ==
    IF Succ(d, S) \subseteq S THEN S ELSE Closure(d, S \cup Succ(d, S))

\* the keys a key depends on, directly or not
DependsOn(d, key) == Closure(d, Succ(d, {key}))

OnCycle(d, key) == key \in DependsOn(d, key)

\* a cycle is reachable from the key
ReachesCycle(d, key) ==
    \E k \in DependsOn(d, key) \cup {key} : OnCycle(d, k)

\* a CppMemo constructed with circular dependency detection, over a graph
\* with or without a cycle
InitCyclic ==
    /\ InitMap
    /\ th = [t \in Threads |-> NoThread]
    /\ deps \in AcyclicGraphs \cup CyclicGraphs
    /\ detectCircularDependencies = TRUE
    /\ defaultNumThreads = 1
    /\ valueDependent = FALSE
    /\ gv = NoCall
    /\ hist = NoHist

SpecCyclic == InitCyclic /\ [][Next]_vars

SpecCyclicLive ==
    /\ InitCyclic /\ [][Next]_vars
    /\ \A t \in Threads : WF_vars(WorkerStep(t))
    /\ WF_vars(GV_Enter \/ GV_Return \/ GV_Unwind)

\* a CppMemo constructed with or without circular dependency detection,
\* over a graph with or without a cycle
InitUndetected ==
    /\ InitMap
    /\ th = [t \in Threads |-> NoThread]
    /\ deps \in NamedGraphs \cup CyclicGraphs
    /\ detectCircularDependencies \in BOOLEAN
    /\ defaultNumThreads = 1
    /\ valueDependent = FALSE
    /\ gv = NoCall
    /\ hist = NoHist

SpecUndetectedLive ==
    /\ InitUndetected /\ [][Next]_vars
    /\ \A t \in Threads : WF_vars(WorkerStep(t))
    /\ WF_vars(GV_Enter \/ GV_Return \/ GV_Unwind)

\* an Fcmm just constructed and the threads that use it directly
InitMapUsers ==
    /\ InitMap
    /\ th = [t \in Threads |-> [NoThread EXCEPT !.pc = "idle", !.opsLeft = Cardinality(UserCalls)]]
    /\ deps = [k \in Keys |-> <<>>]
    /\ detectCircularDependencies = FALSE
    /\ defaultNumThreads = 1
    /\ valueDependent = FALSE
    /\ gv = [NoCall EXCEPT !.pc = "map"]
    /\ hist = NoHist

NextMapUsers ==
    \/ \E t \in Threads : Client_Insert(t) \/ Client_Find(t) \/ MapStep(t)
    \/ Client_Iterate

SpecMap == InitMapUsers /\ [][NextMapUsers]_vars

\* threads that insert, and filter and clone between their calls
NextFilter ==
    \/ \E t \in Threads : Client_Insert(t) \/ MapStep(t)
    \/ Client_Filter
    \/ Client_Clone

SpecFilter == InitMapUsers /\ [][NextFilter]_vars

\* An Fcmm constructed with a maximum of one or two submaps.  Where the map
\* cannot grow thread 0 makes one insert call more than in SpecMap: three
\* entries load the only submap, and two more calls, one of each thread, can
\* then try to expand
InitSmall ==
    /\ submaps = [i \in 0 .. 0 |-> NewSubmap(firstSubmapCapacity(0))]
    /\ numSubmaps = 1
    /\ numEntries = 0
    /\ expanding = FALSE
    /\ maxNumSubmaps \in {1, 2}
    /\ th = [t \in Threads |->
                [NoThread EXCEPT !.pc = "idle",
                    !.opsLeft = IF maxNumSubmaps = 1 /\ t = 0
                                   THEN Cardinality(UserCalls) + 1
                                   ELSE Cardinality(UserCalls)]]
    /\ deps = [k \in Keys |-> <<>>]
    /\ detectCircularDependencies = FALSE
    /\ defaultNumThreads = 1
    /\ valueDependent = FALSE
    /\ gv = [NoCall EXCEPT !.pc = "map"]
    /\ hist = NoHist

NextSmall == \E t \in Threads : Client_Insert(t) \/ MapStep(t)

SpecSmall == InitSmall /\ [][NextSmall]_vars

\* a thread inside insert goes on running (a spinning thread yields and
\* tries again)
SpecSmallLive ==
    /\ InitSmall /\ [][NextSmall]_vars
    /\ \A t \in Threads : WF_vars(MapStep(t))

\* A thread that reads the map (find, begin, ++) and makes one insert call,
\* while the other makes the other insert calls.
Readers == {0}

InitIter ==
    /\ InitMap
    /\ th = [t \in Threads |->
              [NoThread EXCEPT
                 !.pc = "idle",
                 !.opsLeft = IF t \in Readers
                                THEN 1
                                ELSE Cardinality(Threads) * Cardinality(UserCalls) - 1]]
    /\ deps = [k \in Keys |-> <<>>]
    /\ detectCircularDependencies = FALSE
    /\ defaultNumThreads = 1
    /\ valueDependent = FALSE
    /\ gv = [NoCall EXCEPT !.pc = "map"]
    /\ hist = NoHist

NextIter ==
    \/ \E t \in Threads : Client_Insert(t) \/ MapStep(t)
    \/ \E t \in Readers : Client_Find(t) \/ It_Begin(t) \/ It_Next(t) \/ It_Seek(t)

SpecIter == InitIter /\ [][NextIter]_vars

(***************************************************************************)
(* The probe loop of Submap::find and Submap::insert, as a function of the *)
(* capacity and the two hashes: the indexes it visits when no bucket ends  *)
(* it, until index == startIndex again.                                    *)
(***************************************************************************)
Hashes == 0 .. MaxHash
ProbeCapacities == { fcmmNextPrime(n) : n \in 3 .. MaxProbeCapacity }

InitProbe ==
    /\ \E capacity \in ProbeCapacities :
          submaps = [i \in 0 .. 0 |-> NewSubmap(capacity)]
    /\ numSubmaps = 1
    /\ numEntries = 0
    /\ expanding = FALSE
    /\ maxNumSubmaps = FCMM_DEFAULT_MAX_NUM_SUBMAPS
    /\ \E hash1, hash2 \in Hashes :
          th = [t \in Threads |->
                  IF t = 0
                     THEN [NoThread EXCEPT !.pc = "probe",
                                           !.hash1 = hash1, !.hash2 = hash2,
                                           !.index = probeStart(submaps[0], hash1)]
                     ELSE NoThread]
    /\ deps = [k \in Keys |-> <<>>]
    /\ detectCircularDependencies = FALSE
    /\ defaultNumThreads = 1
    /\ valueDependent = FALSE
    /\ gv = [NoCall EXCEPT !.pc = "map"]
    /\ hist = NoHist

\* one turn of do { ... index = (index + probeIncrement) % getCapacity(); }
\* while (index != startIndex)
Probe_Step(t) ==
    LET s == th[t]
        nxt == probeNext(submaps[s.last], s.hash2, s.index)
    IN  /\ s.pc = "probe"
        /\ setThread(t, [s EXCEPT !.probed = Append(@, s.index),
                                  !.index = nxt,
                                  !.pc = IF nxt = probeStart(submaps[s.last], s.hash1)
                                            THEN "probed" ELSE "probe"])
        /\ UNCHANGED <<mapVars, cfgVars, gv, hist>>

NextProbe == \E t \in Threads : Probe_Step(t)

SpecProbe == InitProbe /\ [][NextProbe]_vars

(***************************************************************************)
(* ThreadItemsStack::finalizeGroup as a function of the stack and of the   *)
(* thread number: one stack with an open group, given to a                 *)
(* ThreadItemsStack of every threadNo in 0 .. MaxThreadNo.                 *)
(***************************************************************************)
ThreadNos == 0 .. MaxThreadNo
Items == [key : Keys, ready : BOOLEAN]

\* the stacks with an open group: the items of the group have just been
\* pushed, so they are not ready; the keys below it are in itemsSet
OpenStacks ==
    { x \in [items : SeqsUpTo(Items, MaxStack), groupSize : 0 .. MaxStack] :
        /\ x.groupSize <= Len(x.items)
        /\ \A i \in (Len(x.items) - x.groupSize + 1) .. Len(x.items) :
              ~x.items[i].ready }

InitStack ==
    /\ InitMap
    /\ detectCircularDependencies \in BOOLEAN
    /\ \E x \in OpenStacks :
          th = [t \in ThreadNos |->
                  [NoThread EXCEPT
                     !.pc = "fg", !.items = x.items, !.groupSize = x.groupSize,
                     !.itemsSet =
                        IF detectCircularDependencies
                           THEN { x.items[i].key :
                                    i \in 1 .. (Len(x.items) - x.groupSize) }
                           ELSE {}]]
    /\ deps = [k \in Keys |-> <<>>]
    /\ defaultNumThreads = 1
    /\ valueDependent = FALSE
    /\ gv = [NoCall EXCEPT !.pc = "map"]
    /\ hist = NoHist

\* stack.finalizeGroup()
Stack_FinalizeGroup(t) ==
    /\ th[t].pc = "fg"
    /\ \E q \in finalizeGroup(t, th[t]) : setThread(t, [q EXCEPT !.pc = "fg_done"])
    /\ UNCHANGED <<mapVars, cfgVars, gv, hist>>

NextStack == \E t \in ThreadNos : Stack_FinalizeGroup(t)

SpecStack == InitStack /\ [][NextStack]_vars

\* the scheduler runs every thread that can take a step, and the caller of
\* getValue goes on: the same program under weak fairness
SpecLive ==
    /\ Init /\ [][Next]_vars
    /\ \A t \in Threads : WF_vars(WorkerStep(t))
    /\ WF_vars(GV_Enter \/ GV_Return \/ GV_Unwind)

(***************************************************************************)
(* What the properties speak of.                                           *)
(***************************************************************************)
\* the buckets of the published submaps, as (submap, bucket) positions
Positions ==
    UNION { { [submapIndex |-> i, bucketIndex |-> b] :
                b \in DOMAIN submaps[i].buckets } : i \in 0 .. (numSubmaps - 1) }

ValidPositions == { p \in Positions : entryAt(p).state = "VALID" }

EntriesOf(key) == { p \in ValidPositions : entryAt(p).key = key }

Range(seq) == { seq[i] : i \in 1 .. Len(seq) }

\* submap order, then bucket order
Precedes(p, q) ==
    \/ p.submapIndex < q.submapIndex
    \/ p.submapIndex = q.submapIndex /\ p.bucketIndex < q.bucketIndex

\* the keys a computation of key visits
RECURSIVE Visited(_, _)
Visited(d, key) ==
    {key} \cup UNION { Visited(d, d[key][i]) : i \in 1 .. Len(d[key]) }

InInsert(s) ==
    s.pc \in {"ih_loop", "ih_overloaded", "si_load", "si_cas", "si_reload",
              "si_write", "si_publish", "si_incvalid", "ih_incentries",
              "ex_spin", "ex_snapshot", "ex_check", "ex_publish", "ex_clear"}

(***************************************************************************)
(* C1.  getValue(root) on a fresh memo returns the value plain recursion   *)
(* gives, f(root), for every acyclic graph, one or two threads, both       *)
(* discovery modes and every interleaving: the call never ends in an       *)
(* exception or in std::terminate, and what it returns is f(root).         *)
(***************************************************************************)
C1_ReturnsReference ==
    /\ gv.pc \notin {"threw", "terminated"}
    /\ gv.pc = "returned" => gv.result = F(deps, gv.key)

\* the same, for a memo constructed without circular dependency detection
C1_ReturnsReferenceDetectionOff ==
    ~detectCircularDependencies => C1_ReturnsReference

C1_DetectionOffWitness ==
    /\ ~detectCircularDependencies
    /\ gv.pc = "returned" /\ gv.numThreads = 2 /\ ~gv.declare
    /\ deps = FibGraph

(***************************************************************************)
(* C2.  Every VALID entry (k, v) of the map has v = f(k), at every state   *)
(* of a getValue run; the value a dry run returns is emplaced only if no   *)
(* prerequisite was missing, and then it is f(k) too.                      *)
(***************************************************************************)
C2_ValidEntriesHoldReference ==
    /\ \A p \in ValidPositions : entryAt(p).value = F(deps, entryAt(p).key)
    /\ \A t \in Threads :
          InInsert(th[t]) /\ (~th[t].lazy \/ th[t].valueComputed)
             => th[t].ivalue = F(deps, th[t].ikey)

\* a dry run of the root missed two prerequisites, its tentative value was
\* dropped, and the run went on to publish the root
C2_Witness ==
    /\ gv.pc = "returned" /\ ~gv.declare /\ gv.numThreads = 2
    /\ Len(deps[gv.key]) = 2
    /\ EntriesOf(gv.key) # {}

(***************************************************************************)
(* C3.  While Compute(k) runs in NORMAL mode (the item is ready), every    *)
(* key it reads is findable in the map, so that the provider never throws  *)
(* std::out_of_range.                                                      *)
(***************************************************************************)
C3_PrerequisitesPresent ==
    \A t \in Threads :
        /\ th[t].pc = "c_step" /\ th[t].mode = "NORMAL"
              => \A i \in 1 .. Len(deps[th[t].ckey]) :
                     find(deps[th[t].ckey][i]).found
        /\ th[t].exc # "out_of_range"

C3_Witness ==
    \E t \in Threads :
        /\ th[t].pc = "c_step" /\ th[t].mode = "NORMAL" /\ th[t].ci = 2
        /\ gv.numThreads = 2
        /\ deps[th[t].ckey][1] # deps[th[t].ckey][2]

(***************************************************************************)
(* C4.  When a worker has left its loop with an empty stack, the root is   *)
(* findable; the lookup values[key] that ends getValue never fails.        *)
(***************************************************************************)
C4_RootPresentAtExit ==
    /\ \A t \in Threads :
          th[t].pc = "done" => th[t].items = <<>> /\ find(gv.key).found
    /\ gv.exc # "out_of_range"

\* one worker has left its loop while the other is still at work
C4_Witness ==
    /\ gv.pc = "running" /\ gv.numThreads = 2
    /\ \E t, u \in Threads : th[t].pc = "done" /\ InInsert(th[u])

(***************************************************************************)
(* C5.  Under weak fairness every worker of a getValue call on an acyclic  *)
(* graph empties its stack and the call returns (with f(root): for the     *)
(* chain, one more for every key of the chain).                            *)
(***************************************************************************)
C5_Returned ==
    /\ gv.pc = "returned"
    /\ \A t \in Workers : th[t].pc = "done" /\ th[t].items = <<>>
    /\ gv.result = F(deps, gv.key)

C5_EventuallyReturns == <>C5_Returned

\* the same, for a memo constructed without circular dependency detection
C5_EventuallyReturnsDetectionOff ==
    ~detectCircularDependencies => <>C5_Returned

(***************************************************************************)
(* C6.  Pairwise distinct keys, each inserted by one call, the calls       *)
(* running concurrently: when all calls have returned, numEntries is the   *)
(* number of the keys and find succeeds for each of them, whatever the     *)
(* interleaving and the expansions.                                        *)
(***************************************************************************)
InsertedKeys == { k \in MapKeys : hist.insStarted[k] > 0 }

C6_DistinctKeysAllCounted ==
    Quiescent /\ (\A k \in MapKeys : hist.insStarted[k] <= 1)
       => /\ numEntries = Cardinality(InsertedKeys)
          /\ \A k \in InsertedKeys : find(k).found /\ entryAt(find(k)).key = k

\* four distinct keys are in, and the map has expanded on the way
C6_Witness ==
    /\ Quiescent
    /\ \A k \in MapKeys : hist.insStarted[k] = 1
    /\ numSubmaps = 2

(***************************************************************************)
(* C7.  (as stated) When two workers compute and insert the same key,      *)
(* exactly one entry for it exists afterwards: after getValue has          *)
(* returned, numEntries is the number of distinct keys visited and         *)
(* iteration yields each key exactly once.                                 *)
(***************************************************************************)
C7_ExactlyOneEntry ==
    gv.pc = "returned"
       => /\ \A k \in Visited(deps, gv.key) : Cardinality(EntriesOf(k)) = 1
          /\ numEntries = Cardinality(Visited(deps, gv.key))
          /\ \A k \in Visited(deps, gv.key) :
                Cardinality({ i \in 1 .. Len(iterate) :
                                 entryAt(iterate[i]).key = k }) = 1

(***************************************************************************)
(* C7.  (amended) When two workers compute and insert the same key, one    *)
(* or more entries for it exist afterwards, all with the same value:       *)
(* after getValue has returned, numEntries is the number of VALID          *)
(* buckets, at least the number of distinct keys visited and at most the   *)
(* number of workers times that; iteration yields numEntries entries,      *)
(* keys visited only, and each of them at least once.                      *)
(***************************************************************************)
C7_AtLeastOneEntry ==
    gv.pc = "returned"
       => /\ \A k \in Visited(deps, gv.key) :
                /\ EntriesOf(k) # {}
                /\ Cardinality(EntriesOf(k)) <= gv.numThreads
                /\ \A p, q \in EntriesOf(k) : entryAt(p).value = entryAt(q).value
          /\ numEntries = Cardinality(ValidPositions)
          /\ numEntries >= Cardinality(Visited(deps, gv.key))
          /\ Len(iterate) = numEntries
          /\ { entryAt(p).key : p \in Range(iterate) } = Visited(deps, gv.key)

\* both workers have published an entry for the same key
C7_Witness ==
    /\ gv.pc = "returned"
    /\ \E k \in Keys : Cardinality(EntriesOf(k)) = 2

(***************************************************************************)
(* C8.  Once a find or an insert has returned an entry for a key, every    *)
(* later find of the key returns an entry with that key, whatever is       *)
(* inserted and however the map expands in between.                        *)
(***************************************************************************)
C8_FoundStaysFound ==
    /\ \A k \in hist.returned : find(k).found /\ entryAt(find(k)).key = k
    /\ \A t \in Threads :
          th[t].res.op = "find" /\ th[t].res.after
             => th[t].res.found /\ th[t].res.itKey = th[t].res.key

\* a find of a key returned before, in a submap the map has since left behind
C8_Witness ==
    \E t \in Threads :
        /\ th[t].res.op = "find" /\ th[t].res.after /\ th[t].res.found
        /\ numSubmaps = 2
        /\ find(th[t].res.key).submapIndex = 0

(***************************************************************************)
(* C9.  An insert of a key that starts after an insert of the same key     *)
(* has returned reports inserted = false, returns an entry with the key,   *)
(* calls computeValue not once and leaves numEntries as it is.             *)
(***************************************************************************)
C9_InsertIdempotent ==
    \A t \in Threads :
        th[t].res.op = "insert" /\ th[t].res.after
           => /\ th[t].res.computeCalls = 0
              /\ ~th[t].res.incremented
              /\ th[t].pc \notin {"si_cas", "si_write", "si_publish",
                                 "si_incvalid", "ih_incentries"}
              /\ th[t].pc = "idle"
                    => /\ ~th[t].res.inserted
                       /\ th[t].res.found
                       /\ th[t].res.itKey = th[t].res.key

\* such an insert has returned, having met the key in the last submap
C9_Witness ==
    \E t \in Threads :
        /\ th[t].res.op = "insert" /\ th[t].res.after /\ th[t].pc = "idle"
        /\ numSubmaps = 1

(***************************************************************************)
(* C10.  With no insert in progress, iterating from begin() to end()       *)
(* visits every VALID bucket of the submaps [0, numSubmaps) once, in       *)
(* submap order and then bucket order; it yields numEntries entries, the   *)
(* keys of all completed inserts among them.                               *)
(***************************************************************************)
C10_IterationComplete ==
    hist.iterated
       => /\ \A i, j \in 1 .. Len(hist.yielded) :
                i < j => Precedes(hist.yielded[i], hist.yielded[j])
          /\ Range(hist.yielded) = ValidPositions
          /\ Len(hist.yielded) = numEntries
          /\ \A k \in hist.insReturned :
                \E p \in Range(hist.yielded) : entryAt(p).key = k

\* an iteration over two submaps, entries in both
C10_Witness ==
    /\ hist.iterated
    /\ numSubmaps = 2
    /\ \E p, q \in Range(hist.yielded) : p.submapIndex = 0 /\ q.submapIndex = 1

(***************************************************************************)
(* C11.  An iterator that designates an entry (returned by find or by      *)
(* insert, or arrived at by ++) designates the same (key, value) pair      *)
(* after any later inserts and expansions; advancing it moves it forward   *)
(* in submap-then-bucket order within the map, so that it comes to end()   *)
(* after finitely many steps, and it stops at VALID buckets only.          *)
(***************************************************************************)
C11_Designates ==
    \A t \in Threads :
        /\ th[t].it.held
              => /\ ~th[t].it.end
                 /\ th[t].it.submapIndex < numSubmaps
                 /\ th[t].it.bucketIndex < getCapacity(submaps[th[t].it.submapIndex])
                 /\ entryAt(th[t].it) =
                       [state |-> "VALID", key |-> th[t].it.key,
                        value |-> th[t].it.value]
        /\ th[t].pc = "it_seek"
              => /\ th[t].it.submapIndex < numSubmaps
                 /\ th[t].it.bucketIndex <= getCapacity(submaps[th[t].it.submapIndex])

C11_Advances ==
    \A t \in Threads :
        /\ th[t].pc = "idle" /\ th'[t].pc = "it_seek"
              => \/ th'[t].it = NoIterator
                 \/ th[t].it.held /\ Precedes(th[t].it, th'[t].it)
        /\ th[t].pc = "it_seek" /\ th'[t] # th[t]
              => \/ th'[t].pc = "idle" /\ th'[t].it.end
                 \/ th'[t].pc = "idle" /\ th'[t].it.held
                       /\ th'[t].it.submapIndex = th[t].it.submapIndex
                       /\ th'[t].it.bucketIndex = th[t].it.bucketIndex
                 \/ th'[t].pc = "it_seek" /\ Precedes(th[t].it, th'[t].it)

C11_IteratorsStayValid == []C11_Designates /\ [][C11_Advances]_vars

\* an iterator obtained when the map had one submap, still held when it has two
C11_Witness ==
    \E t \in Readers :
        /\ th[t].it.held
        /\ th[t].it.numSubmapsThen = 1
        /\ numSubmaps = 2
        /\ numEntries = Cardinality(MapKeys)

(***************************************************************************)
(* C12.  For a map m no insert is running on and a predicate p, the set    *)
(* of entries of filter(m, p) is { e in m : p(e) }, the set of entries of  *)
(* clone(m) is the set of entries of m, and m is as it was.                *)
(***************************************************************************)
EntrySet(m) ==
    { [key |-> e.key, value |-> e.value] : e \in Range(entriesOf(m)) }

C12_FilterGivesSubset ==
    hist.filtered.op # "none"
       => /\ EntrySet(hist.filtered.map)
                = { e \in EntrySet(thisMap) : e.key \in hist.filtered.keep }
          /\ hist.filtered.op = "clone"
                => EntrySet(hist.filtered.map) = EntrySet(thisMap)

C12_SourceUnchanged ==
    hist'.filtered # hist.filtered /\ hist'.filtered.op # "none"
       => UNCHANGED mapVars

C12_FilterClone == []C12_FilterGivesSubset /\ [][C12_SourceUnchanged]_vars

\* a filter that keeps two of the four keys of a map of two submaps
C12_Witness ==
    /\ hist.filtered.op = "filter"
    /\ Cardinality(hist.filtered.keep) = 2
    /\ hist.filtered.map.numEntries = 2
    /\ numEntries = 4 /\ numSubmaps = 2

(***************************************************************************)
(* C13.  clone() strips duplicates: the cloned map holds one entry per     *)
(* distinct key of the source, also when the source holds several entries  *)
(* with one key; its numEntries is the number of distinct keys, which may  *)
(* be lower than the numEntries of the source.                             *)
(***************************************************************************)
KeysIn(m) == { e.key : e \in Range(entriesOf(m)) }

C13_CloneStripsDuplicates ==
    hist.filtered.op = "clone"
       => LET c == hist.filtered.map IN
          /\ KeysIn(c) = KeysIn(thisMap)
          /\ \A k \in KeysIn(c) :
                Cardinality({ i \in 1 .. Len(entriesOf(c)) :
                                 entriesOf(c)[i].key = k }) = 1
          /\ c.numEntries = Cardinality(KeysIn(thisMap))
          /\ c.numEntries <= numEntries

\* the source holds two entries with one key, its clone one
C13_Witness ==
    /\ hist.filtered.op = "clone"
    /\ hist.filtered.map.numEntries < numEntries
    /\ \E k \in MapKeys : Cardinality(EntriesOf(k)) = 2

(***************************************************************************)
(* C14.  With circular dependency detection on and a cycle reachable from  *)
(* the root, getValue throws CircularDependencyException to its caller:    *)
(* it returns no value, the process is not ended, and the exception that   *)
(* leaves the call is CircularDependencyException, with or without         *)
(* declarePrerequisites and for one or several threads.                    *)
(***************************************************************************)
C14_Case ==
    /\ detectCircularDependencies
    /\ gv.pc # "idle"
    /\ ReachesCycle(deps, gv.key)

C14_RaisesCircularDependency ==
    C14_Case
       => /\ gv.pc \in {"running", "threw"}
          /\ gv.pc = "threw" => gv.exc = "CircularDependencyException"

\* the same, for a call with numThreads = 1
C14_RaisesCircularDependencyOneThread ==
    gv.numThreads = 1 => C14_RaisesCircularDependency

\* and under weak fairness the one-thread call does throw
C14_OneThreadEventuallyRaises ==
    (C14_Case /\ gv.numThreads = 1) ~> (gv.pc = "threw")

C14_OneThreadWitness ==
    /\ C14_Case
    /\ gv.numThreads = 1 /\ ~gv.declare
    /\ gv.pc = "threw" /\ gv.exc = "CircularDependencyException"
    /\ deps = TailLoopGraph

(***************************************************************************)
(* C15.  The keys stack of a CircularDependencyException is the stack of   *)
(* the thread that threw it as it was then, from bottom to top: it begins  *)
(* with the root key, it ends with the key whose push threw, and that key  *)
(* is also at a position below.  The exception that leaves getValue        *)
(* carries this stack.                                                     *)
(***************************************************************************)
Raised(t) == th[t].exc = "CircularDependencyException"

\* the key whose push threw: the prerequisite the thread had just named
RejectedKey(t) == deps[th[t].ckey][th[t].ci - 1]

C15_KeysStack ==
    /\ \A t \in Threads :
          Raised(t)
             => LET ks == th[t].keysStack IN
                /\ ks = getKeysStack(th[t].items)
                /\ Len(ks) >= 2
                /\ ks[1] = gv.key
                /\ ks[Len(ks)] = RejectedKey(t)
                /\ \E i \in 1 .. Len(ks) - 1 : ks[i] = ks[Len(ks)]
    /\ gv.exc = "CircularDependencyException"
          => \E t \in Threads : Raised(t) /\ gv.keysStack = th[t].keysStack

\* the chain that runs into a cycle: the stack holds every key, and the
\* key below the root again
C15_Witness ==
    /\ deps = TailLoopGraph
    /\ gv.pc = "threw" /\ gv.exc = "CircularDependencyException"
    /\ Len(gv.keysStack) = MaxKey + 2
    /\ gv.keysStack[MaxKey + 2] = MaxKey - 1

(***************************************************************************)
(* C16.  In the keys stack of a CircularDependencyException the keys of    *)
(* the cycle are together at the top: every key from the occurrence of the *)
(* repeated key below the top up to the top lies on a cycle with the       *)
(* repeated key, whatever the graph (keys with several prerequisites       *)
(* included).                                                              *)
(***************************************************************************)
SameCycle(d, a, b) == a \in DependsOn(d, b) /\ b \in DependsOn(d, a)

\* the position of the repeated key nearest below the top
EarlierOccurrence(ks) ==
    CHOOSE i \in 1 .. Len(ks) - 1 :
        /\ ks[i] = ks[Len(ks)]
        /\ \A j \in i + 1 .. Len(ks) - 1 : ks[j] # ks[Len(ks)]

CycleAtTop(ks) ==
    \A j \in EarlierOccurrence(ks) .. Len(ks) : SameCycle(deps, ks[j], ks[Len(ks)])

C16_CycleAtTop == \A t \in Threads : Raised(t) => CycleAtTop(th[t].keysStack)

(***************************************************************************)
(* C16 as the code has it.  The stack holds, above the key being looked    *)
(* into, the prerequisites of it pushed so far, and below it the           *)
(* prerequisites of other keys that wait their turn.  The repeated key is  *)
(* a prerequisite of the key being looked into and lies at or below it;    *)
(* the keys of the cycle are together at the top when no key has more than *)
(* one prerequisite.                                                       *)
(***************************************************************************)
SinglePrerequisite(d) == \A k \in Keys : Len(d[k]) <= 1

C16_CycleAtTopOfChains ==
    \A t \in Threads :
        Raised(t)
           => LET ks == th[t].keysStack
                  n == Len(ks)
                  j == n - 1 - th[t].groupSize
              IN  /\ j >= 1
                  /\ ks[j] = th[t].ckey
                  /\ \A m \in j + 1 .. n : ks[m] \in Succ(deps, {ks[j]})
                  /\ EarlierOccurrence(ks) <= j
                  /\ SinglePrerequisite(deps) => CycleAtTop(ks)

\* every key reads the one below and key 0 the root: the stack is the
\* whole cycle, from the root to the root
C16_Witness ==
    \E t \in Threads :
        /\ Raised(t)
        /\ deps = RingGraph
        /\ Len(th[t].keysStack) = MaxKey + 2
        /\ th[t].keysStack[MaxKey + 2] = MaxKey

(***************************************************************************)
(* C17.  With numThreads > 1, when a worker throws, getValue joins every   *)
(* worker and then throws one exception to its caller: the process is not  *)
(* ended, the call returns no value, and when it throws every worker has   *)
(* left run.                                                               *)
(***************************************************************************)
C17_JoinsAndReRaises ==
    gv.numThreads > 1
       => /\ gv.pc # "terminated"
          /\ (\E t \in Workers : th[t].pc = "threw") => gv.pc # "returned"
          /\ gv.pc = "threw"
                => /\ \A t \in Workers : th[t].pc \in {"done", "threw"}
                   /\ \E t \in Workers : th[t].exc = gv.exc

(***************************************************************************)
(* C18.  The read-only getValue(key) returns the stored value when the key *)
(* is memoized and throws std::logic_error when it is not; either way it   *)
(* changes nothing in the map and runs no Compute and no Declare (no       *)
(* thread moves).                                                          *)
(***************************************************************************)
C18_ReadOnlyStep ==
    hist'.read # hist.read /\ hist'.read.op # "none"
       => /\ UNCHANGED <<mapVars, cfgVars, th, gv>>
          /\ IF EntriesOf(hist'.read.key) # {}
                THEN /\ hist'.read.op = "returned"
                     /\ \E p \in EntriesOf(hist'.read.key) :
                           entryAt(p).value = hist'.read.value
                     /\ hist'.read.value = F(deps, hist'.read.key)
                ELSE hist'.read.op = "logic_error"

C18_ReadOnly == [][C18_ReadOnlyStep]_vars

\* both outcomes, one after the other on one memo
C18_Witness ==
    /\ hist.read.op = "logic_error"
    /\ gv.pc = "returned"
    /\ EntriesOf(hist.read.key) = {}
    /\ numEntries > 0

C18_WitnessReturned ==
    /\ hist.read.op = "returned"
    /\ hist.read.key = MaxKey
    /\ hist.read.value = F(deps, MaxKey)
    /\ deps = FibGraph

(***************************************************************************)
(* C19.  A getValue(key, compute, ...) for a key the map already holds     *)
(* returns the stored value and starts no worker, runs no Compute and no   *)
(* Declare, and leaves the map as it was: numEntries, numSubmaps and every *)
(* bucket.                                                                 *)
(***************************************************************************)
\* a step that is a call of getValue for a key the map holds
C19_Case ==
    /\ gv.pc \in {"idle", "returned"}
    /\ gv' # gv
    /\ find(gv'.key).found

C19_FastPathStep ==
    C19_Case
       => /\ gv'.pc = "returned"
          /\ gv'.result = entryAt(find(gv'.key)).value
          /\ UNCHANGED <<mapVars, cfgVars, th>>

C19_FastPath == [][C19_FastPathStep]_vars

\* a call with two threads has returned and thread 1 has never run: the
\* first call had one thread, the second found its key
C19_Witness ==
    /\ gv.pc = "returned" /\ gv.numThreads = 2 /\ gv.key = 0
    /\ th[0].pc = "done" /\ th[1].pc = "off"
    /\ gv.result = F(deps, 0)

(***************************************************************************)
(* C20.  numSubmaps never exceeds the maximum number of submaps: an        *)
(* expand() called when numSubmaps is at the maximum allocates no submap   *)
(* and throws std::runtime_error, and the exception leaves insert to the   *)
(* caller.                                                                 *)
(***************************************************************************)
AtMaximum == numSubmaps = maxNumSubmaps

C20_Bounded ==
    /\ numSubmaps <= maxNumSubmaps
    /\ DOMAIN submaps \subseteq 0 .. maxNumSubmaps - 1

\* a thread in expand() at the maximum leaves it, and insert, by
\* std::runtime_error, and the map is as it was but for the flag
C20_ThrowStep ==
    \A t \in Threads :
        /\ (th[t].pc = "ex_snapshot" /\ AtMaximum /\ th'[t] # th[t])
              => /\ th'[t].pc = "threw" /\ th'[t].exc = "runtime_error"
                 /\ UNCHANGED <<submaps, numSubmaps, numEntries>>
        /\ (th[t].pc # "threw" /\ th'[t].pc = "threw")
              => th[t].pc = "ex_snapshot" /\ AtMaximum

\* every expand() called at the maximum does fail
C20_ExpandFails ==
    \A t \in Threads :
        (th[t].pc = "ex_spin" /\ AtMaximum)
            ~> (th[t].pc = "threw" /\ th[t].exc = "runtime_error")

C20_CapacityExceeded ==
    /\ []C20_Bounded
    /\ [][C20_ThrowStep]_vars
    /\ C20_ExpandFails

\* what holds of it: the bound, and what the expand() that gets to compare
\* numSubmaps with the maximum does
C20_CapacityExceededSafety == []C20_Bounded /\ [][C20_ThrowStep]_vars

C20_SafetyWitness ==
    \E t \in Threads :
        /\ th[t].pc = "threw" /\ th[t].exc = "runtime_error"
        /\ maxNumSubmaps = 1 /\ numSubmaps = 1
        /\ numEntries = 3

(***************************************************************************)
(* C21.  An expand() that has taken the expanding flag clears it before it *)
(* leaves: whenever the flag is set some thread is in expand() past the    *)
(* spin loop, so that a thread spinning on the flag gets it in the end.    *)
(***************************************************************************)
InCriticalSection(t) ==
    th[t].pc \in {"ex_snapshot", "ex_check", "ex_publish", "ex_clear"}

C21_FlagHeldByExpander == expanding => \E t \in Threads : InCriticalSection(t)

\* the same, of a map that is below its maximum number of submaps
C21_FlagHeldBelowMaximum == numSubmaps < maxNumSubmaps => C21_FlagHeldByExpander

C21_BelowMaximumWitness ==
    /\ expanding /\ numSubmaps < maxNumSubmaps
    /\ \E t \in Threads : th[t].pc = "ex_publish"

(***************************************************************************)
(* C22.  setDefaultNumThreads(n) with n < 1 throws std::logic_error and    *)
(* leaves defaultNumThreads as it was, and so does the constructor (no     *)
(* object then); with n >= 1 it stores n, which a following                *)
(* getDefaultNumThreads() returns.  A call without numThreads starts that  *)
(* many threads.                                                           *)
(***************************************************************************)
C22_Step ==
    /\ (hist'.config.op = "set" /\ hist'.config # hist.config)
          => IF hist'.config.arg < 1
                THEN /\ hist'.config.exc = "logic_error"
                     /\ defaultNumThreads' = defaultNumThreads
                ELSE /\ hist'.config.exc = "none"
                     /\ defaultNumThreads' = hist'.config.arg
    /\ (hist'.config.op = "get" /\ hist.config.op \in {"set", "constructor"}
        /\ hist.config.exc = "none")
          => hist'.config.got = hist.config.arg
    /\ (gv.pc = "idle" /\ gv'.pc = "running")
          => gv'.numThreads = defaultNumThreads

C22_Constructed ==
    /\ hist.config.op = "constructor"
          => IF hist.config.arg < 1
                THEN hist.config.exc = "logic_error" /\ gv.pc = "unconstructed"
                ELSE hist.config.exc = "none" /\ defaultNumThreads = hist.config.arg
    /\ gv.pc # "unconstructed" => defaultNumThreads >= 1

C22_DefaultNumThreads == []C22_Constructed /\ [][C22_Step]_vars

\* a rejected setDefaultNumThreads(0) on a memo that has two threads by
\* default
C22_Witness ==
    /\ hist.config.op = "set" /\ hist.config.arg = 0
    /\ hist.config.exc = "logic_error"
    /\ defaultNumThreads = 2

(***************************************************************************)
(* C23.  Without declarePrerequisites, Compute is called at least twice    *)
(* for every key the call memoizes: at least once as a dry run and at      *)
(* least once in NORMAL mode, for the value stored.                        *)
(***************************************************************************)
Memoized(key) == EntriesOf(key) # {}

Called(key, mode) == \E t \in Threads : <<t, key, mode>> \in hist.computed

C23_ComputedTwice ==
    (gv.pc # "idle" /\ ~gv.declare)
       => \A k \in Keys :
             Memoized(k) => Called(k, "DRY_RUN") /\ Called(k, "NORMAL")

(***************************************************************************)
(* C23 as the code has it.  A dry run that pushes no prerequisite (the key *)
(* has none, or all are memoized already) has computed the value, and run  *)
(* emplaces it: that key is computed once.  Every memoized key has been    *)
(* computed at least once; a thread computes a key in NORMAL mode only     *)
(* after its own dry run of it; a key without prerequisites is computed by *)
(* dry runs only.                                                          *)
(***************************************************************************)
C23_ComputedOnceOrTwice ==
    (gv.pc # "idle" /\ ~gv.declare)
       => /\ \A k \in Keys :
                Memoized(k) => Called(k, "DRY_RUN") \/ Called(k, "NORMAL")
          /\ \A c \in hist.computed :
                c[3] = "NORMAL" => <<c[1], c[2], "DRY_RUN">> \in hist.computed
          /\ \A k \in Keys : deps[k] = <<>> => ~Called(k, "NORMAL")

\* one thread, Fibonacci's graph: the root is computed twice, key 0 once
C23_Witness ==
    /\ gv.pc = "returned" /\ ~gv.declare /\ gv.numThreads = 1
    /\ deps = FibGraph
    /\ <<0, MaxKey, "DRY_RUN">> \in hist.computed
    /\ <<0, MaxKey, "NORMAL">> \in hist.computed
    /\ <<0, 0, "DRY_RUN">> \in hist.computed
    /\ <<0, 0, "NORMAL">> \notin hist.computed
    /\ Memoized(0)

(***************************************************************************)
(* C24.  Without declarePrerequisites, when Compute(k) run again after the *)
(* dry run requests a prerequisite that is still missing (its requests     *)
(* depend on the values it was given), run gathers prerequisites for k     *)
(* again, until a run of Compute(k) pushes no key, and stores the value of *)
(* k only then: getValue does not fail, and returns the reference value.   *)
(***************************************************************************)
C24_Case == valueDependent /\ ~gv.declare /\ gv.pc # "idle"

C24_FurtherDiscoveryRounds ==
    C24_Case
       => /\ gv.pc \notin {"threw", "terminated"}
          /\ \A t \in Threads : th[t].exc = "none"
          /\ gv.pc = "returned" => gv.result = F(deps, gv.key)

\* what does hold: no value but the reference value is ever stored or
\* returned
C24_NoWrongValue ==
    C24_Case
       => /\ \A p \in ValidPositions : entryAt(p).value = F(deps, entryAt(p).key)
          /\ gv.pc = "returned" => gv.result = F(deps, gv.key)

C24_NoWrongValueWitness ==
    /\ C24_Case /\ gv.pc = "returned" /\ deps = FibGraph /\ gv.numThreads = 2

(***************************************************************************)
(* C25.  With detection on, CircularDependencyException is thrown only     *)
(* when the graph has a cycle the root reaches: on an acyclic graph, with  *)
(* whatever order of declaration (a prerequisite that depends on a sibling *)
(* still waiting on the stack included), no thread throws it.              *)
(***************************************************************************)
C25_NoFalseCycleReport ==
    ~ReachesCycle(deps, MaxKey)
       => /\ \A t \in Threads : ~Raised(t)
          /\ gv.exc # "CircularDependencyException"

\* what does hold: the key reported is on the thread's stack (C15), and a
\* graph in which no key has more than one prerequisite gives no report
C25_NoFalseCycleReportOnChains ==
    SinglePrerequisite(deps) => C25_NoFalseCycleReport

C25_OnChainsWitness ==
    /\ detectCircularDependencies /\ deps = ChainGraph
    /\ gv.pc = "returned" /\ gv.numThreads = 2 /\ gv.declare

(***************************************************************************)
(* C26.  Every bucket starts EMPTY and its state moves EMPTY -> BUSY ->     *)
(* VALID only: EMPTY -> BUSY by a compare-exchange that succeeds (one       *)
(* thread claims the bucket), BUSY -> VALID by the thread that claimed it,  *)
(* and a VALID bucket keeps its state.                                      *)
(***************************************************************************)
\* every bucket of every allocated submap, published or not
AllocatedPositions ==
    UNION { { [submapIndex |-> i, bucketIndex |-> b] :
                b \in DOMAIN submaps[i].buckets } : i \in DOMAIN submaps }

bucketAt(subs, p) == subs[p.submapIndex].buckets[p.bucketIndex]

ProbesAt(t, p) == th[t].last = p.submapIndex /\ th[t].index = p.bucketIndex

\* the thread has claimed the bucket and not yet published it
Claimer(t, p) == th[t].pc \in {"si_write", "si_publish"} /\ ProbesAt(t, p)

C26_AllEmpty ==
    \A p \in AllocatedPositions : bucketAt(submaps, p).state = "EMPTY"

C26_OneClaimer ==
    \A p \in AllocatedPositions :
        /\ bucketAt(submaps, p).state \in {"EMPTY", "BUSY", "VALID"}
        /\ bucketAt(submaps, p).state = "BUSY"
              <=> \E t \in Threads : Claimer(t, p)
        /\ \A t, u \in Threads : Claimer(t, p) /\ Claimer(u, p) => t = u

C26_StateStep ==
    /\ \A p \in AllocatedPositions :
          LET old == bucketAt(submaps, p).state
              new == bucketAt(submaps', p).state
          IN  new # old
                 => \/ /\ old = "EMPTY" /\ new = "BUSY"
                       /\ \E t \in Threads :
                             /\ th[t].pc = "si_cas" /\ ProbesAt(t, p)
                             /\ th'[t].pc = "si_write"
                    \/ /\ old = "BUSY" /\ new = "VALID"
                       /\ \E t \in Threads :
                             /\ th[t].pc = "si_publish" /\ ProbesAt(t, p)
                             /\ th'[t].pc = "si_incvalid"
    /\ \A i \in DOMAIN submaps' \ DOMAIN submaps :
          \A b \in DOMAIN submaps'[i].buckets : submaps'[i].buckets[b].state = "EMPTY"

C26_BucketLifecycle ==
    C26_AllEmpty /\ []C26_OneClaimer /\ [][C26_StateStep]_vars

\* a thread has claimed a bucket and the other, which found it BUSY, is
\* about to load its state again
C26_Witness ==
    \E t, u \in Threads, p \in AllocatedPositions :
        /\ Claimer(t, p)
        /\ th[u].pc = "si_reload" /\ ProbesAt(u, p)

(***************************************************************************)
(* C27.  The key and the value of a bucket are written by the thread that  *)
(* claimed it, while it is BUSY, before VALID is stored: the key and the   *)
(* value of a bucket seen VALID are complete and never change.             *)
(***************************************************************************)
payload(b) == <<b.key, b.value>>

C27_PayloadStep ==
    \A p \in AllocatedPositions :
        LET old == bucketAt(submaps, p)
            new == bucketAt(submaps', p)
        IN  /\ payload(new) # payload(old)
                  => /\ old.state = "BUSY" /\ new.state = "BUSY"
                     /\ \E t \in Threads :
                           /\ th[t].pc = "si_write" /\ ProbesAt(t, p)
                           /\ payload(new) = <<th[t].ikey, th[t].ivalue>>
            /\ (old.state = "BUSY" /\ new.state = "VALID")
                  => \E t \in Threads :
                        /\ th[t].pc = "si_publish" /\ ProbesAt(t, p)
                        /\ payload(old) = <<th[t].ikey, th[t].ivalue>>
                        /\ payload(new) = payload(old)
            /\ old.state = "VALID" => new = old

C27_PayloadImmutable == [][C27_PayloadStep]_vars

\* a thread reads the key of a VALID bucket while the other writes the
\* payload of the bucket it has claimed
C27_Witness ==
    \E t, u \in Threads, p \in AllocatedPositions :
        /\ th[t].pc = "si_load" /\ ProbesAt(t, p)
        /\ bucketAt(submaps, p).state = "VALID"
        /\ bucketAt(submaps, p).value = ValueOf(bucketAt(submaps, p).key)
        /\ th[u].pc = "si_write" /\ u # t

(***************************************************************************)
(* C28.  (as stated) No submap ever holds two VALID buckets with equal     *)
(* keys, however the concurrent inserts of one key interleave: entries     *)
(* with equal keys lie in different submaps.                               *)
(***************************************************************************)
\* the VALID buckets of a submap that hold the key
ValidIn(i, k) ==
    { p \in AllocatedPositions :
         /\ p.submapIndex = i
         /\ bucketAt(submaps, p).state = "VALID"
         /\ bucketAt(submaps, p).key = k }

C28_NoDuplicateInSubmap ==
    \A i \in DOMAIN submaps, k \in MapKeys : Cardinality(ValidIn(i, k)) <= 1

(***************************************************************************)
(* C28.  (amended) A thread that loads VALID from a bucket holding its key *)
(* returns that bucket and inserts nothing, but a thread that loads BUSY   *)
(* twice moves on to the next bucket: a submap holds at most one VALID     *)
(* bucket with a given key for each thread that inserts, all of them with  *)
(* the same value.                                                         *)
(***************************************************************************)
C28_OnePerThread ==
    \A i \in DOMAIN submaps, k \in MapKeys :
        /\ Cardinality(ValidIn(i, k)) <= Cardinality(Threads)
        /\ \A p, q \in ValidIn(i, k) :
              bucketAt(submaps, p).value = bucketAt(submaps, q).value

C28_SeenValidStep ==
    \A t \in Threads, p \in AllocatedPositions :
        /\ th[t].pc \in {"si_load", "si_reload"} /\ ProbesAt(t, p)
        /\ bucketAt(submaps, p).state = "VALID"
        /\ bucketAt(submaps, p).key = th[t].ikey
        /\ th'[t] # th[t]
        => /\ th'[t].pc \notin {"si_load", "si_cas", "si_reload", "si_write",
                                "si_publish", "si_incvalid", "ih_incentries"}
           /\ th'[t].res.found /\ ~th'[t].res.inserted
           /\ th'[t].res.itKey = th[t].ikey
           /\ submaps' = submaps

C28_DuplicatesOnlyPastBusy == []C28_OnePerThread /\ [][C28_SeenValidStep]_vars

\* two VALID buckets of the first submap hold the same key
C28_Witness ==
    \E k \in MapKeys : Cardinality(ValidIn(0, k)) = 2

(***************************************************************************)
(* C29.  At most one thread at a time is between acquiring and releasing   *)
(* the expanding flag.  A successful expansion happens only if the last    *)
(* submap is overloaded when checked again under the flag; it writes the   *)
(* slot at index numSubmaps and no other (a slot is allocated once) and    *)
(* increments numSubmaps by exactly 1.                                     *)
(***************************************************************************)
Expanders == { t \in Threads : InCriticalSection(t) }

C29_MutualExclusion ==
    /\ Cardinality(Expanders) <= 1
    /\ Expanders # {} => expanding
    /\ \A t \in Threads :
          th[t].pc = "ex_publish"
             => /\ th[t].snap = numSubmaps
                /\ DOMAIN submaps = 0 .. numSubmaps
                /\ isOverloaded(submaps[numSubmaps - 1])

C29_ExpandStep ==
    /\ DOMAIN submaps' # DOMAIN submaps
          => /\ numSubmaps \notin DOMAIN submaps
             /\ DOMAIN submaps' = DOMAIN submaps \cup {numSubmaps}
             /\ \A i \in DOMAIN submaps : submaps'[i] = submaps[i]
             /\ numSubmaps' = numSubmaps
             /\ expanding /\ expanding'
             /\ isOverloaded(submaps[numSubmaps - 1])
             /\ \E t \in Threads :
                   /\ th[t].pc = "ex_check" /\ th'[t].pc = "ex_publish"
                   /\ Expanders = {t}
    /\ numSubmaps' # numSubmaps
          => /\ numSubmaps' = numSubmaps + 1
             /\ submaps' = submaps
             /\ DOMAIN submaps = 0 .. numSubmaps
             /\ expanding /\ expanding'
             /\ \E t \in Threads :
                   /\ th[t].pc = "ex_publish" /\ th'[t].pc = "ex_clear"
                   /\ Expanders = {t}
    /\ \A i \in DOMAIN submaps :
          /\ i \in DOMAIN submaps'
          /\ getCapacity(submaps'[i]) = getCapacity(submaps[i])
    /\ \A t \in Threads :
          th[t].pc = "ex_check" /\ th'[t].pc = "ex_clear"
             => /\ ~isOverloaded(submaps[th[t].snap - 1])
                /\ submaps' = submaps /\ numSubmaps' = numSubmaps

C29_ExpansionSerialized == []C29_MutualExclusion /\ [][C29_ExpandStep]_vars

\* a thread has allocated the next slot under the flag while the other
\* spins on it
C29_Witness ==
    \E t, u \in Threads :
        /\ th[t].pc = "ex_publish" /\ numSubmaps \in DOMAIN submaps
        /\ th[u].pc = "ex_spin"

(***************************************************************************)
(* C30.  numSubmaps starts at 1 and never decreases, and in every          *)
(* reachable state every slot in [0, numSubmaps) holds a fully constructed *)
(* submap (a slot is written before numSubmaps is incremented past it):    *)
(* find, insert and iteration never dereference a slot that is not         *)
(* allocated.                                                              *)
(***************************************************************************)
Constructed(sm) ==
    /\ getCapacity(sm) >= 1
    /\ DOMAIN sm.buckets = 0 .. (getCapacity(sm) - 1)
    /\ \A b \in DOMAIN sm.buckets :
          sm.buckets[b].state \in {"EMPTY", "BUSY", "VALID"}
    /\ sm.numValidBuckets \in 0 .. getCapacity(sm)

\* the slots a thread's next step dereferences
Dereferenced(t) ==
    LET s == th[t] IN
    CASE s.pc \in {"si_load", "si_cas", "si_reload", "si_write", "si_publish",
                   "si_incvalid", "ih_overloaded"} -> {s.last}
      [] s.pc = "ex_check" -> {s.snap - 1}
      [] s.pc = "it_seek" -> {s.it.submapIndex}
      [] s.pc = "idle" /\ s.it.held /\ ~s.it.end -> {s.it.submapIndex}
      [] OTHER -> {}

C30_Allocated ==
    /\ numSubmaps >= 1
    /\ \A i \in 0 .. (numSubmaps - 1) :
          i \in DOMAIN submaps /\ Constructed(submaps[i])
    /\ \A t \in Threads : Dereferenced(t) \subseteq 0 .. (numSubmaps - 1)
    /\ \A k \in MapKeys :
          find(k).found => find(k).submapIndex \in 0 .. (numSubmaps - 1)

C30_SlotsAllocated ==
    numSubmaps = 1 /\ []C30_Allocated /\ [][numSubmaps' >= numSubmaps]_vars

\* the map has expanded: a thread probes the second submap while the
\* reader's iterator seeks through it
C30_Witness ==
    /\ numSubmaps = 2
    /\ \E t, u \in Threads :
          /\ th[t].pc = "si_load" /\ th[t].last = 1
          /\ th[u].pc = "it_seek" /\ th[u].it.submapIndex = 1

(***************************************************************************)
(* C31.  For every VALID bucket holding key k in a submap, every bucket    *)
(* that precedes it in the probe sequence of k in that submap is BUSY or   *)
(* VALID; so Submap::find(k), which stops at the first EMPTY bucket, never *)
(* reports a key absent whose insert into that submap has completed.       *)
(***************************************************************************)
\* the indexes the probe sequence of the key visits from index up to, and
\* not including, target
RECURSIVE probedBefore(_, _, _, _)
probedBefore(sm, key, index, target) ==
    IF index = target THEN {}
    ELSE {index} \cup probedBefore(sm, key, nextIndex(sm, key, index), target)

C31_ProbePrefixClaimed ==
    \A p \in AllocatedPositions :
        LET sm == submaps[p.submapIndex]
            bucket == bucketAt(submaps, p)
        IN  bucket.state = "VALID"
               => /\ \A b \in probedBefore(sm, bucket.key,
                                           startIndexOf(sm, bucket.key),
                                           p.bucketIndex) :
                        sm.buckets[b].state # "EMPTY"
                  /\ submapFind(sm, bucket.key).found
                  /\ sm.buckets[submapFind(sm, bucket.key).index].key = bucket.key

\* a key's VALID bucket lies past its start bucket, which another thread has
\* claimed and not yet published
C31_Witness ==
    \E p \in AllocatedPositions :
        LET sm == submaps[p.submapIndex]
            bucket == bucketAt(submaps, p)
        IN  /\ bucket.state = "VALID"
            /\ p.bucketIndex # startIndexOf(sm, bucket.key)
            /\ sm.buckets[startIndexOf(sm, bucket.key)].state = "BUSY"

(***************************************************************************)
(* C32.  For every prime capacity c >= 3 and all hashes h1 and h2, the     *)
(* probe sequence that starts at h1 mod c and steps by 1 + (h2 mod (c-1))  *)
(* modulo c visits every index in [0, c) exactly once before it is back at *)
(* the start index: a full probe cycle of find or insert examines every    *)
(* bucket of the submap.                                                   *)
(***************************************************************************)
C32_VisitsEveryBucketOnce ==
    \A t \in Threads :
        LET s == th[t]
            capacity == getCapacity(submaps[s.last])
        IN  /\ s.pc \in {"probe", "probed"}
                  => /\ \A i, j \in 1 .. Len(s.probed) :
                           s.probed[i] = s.probed[j] => i = j
                     /\ Range(s.probed) \subseteq 0 .. (capacity - 1)
                     /\ calculateProbeIncrement(submaps[s.last], s.hash2)
                           \in 1 .. (capacity - 1)
            /\ s.pc = "probed"
                  => /\ Len(s.probed) = capacity
                     /\ Range(s.probed) = 0 .. (capacity - 1)
                     /\ s.probed[1] = s.hash1 % capacity
                     /\ s.index = s.probed[1]

\* a full cycle over the largest capacity, with an increment above 1 and a
\* start index above 0
C32_Witness ==
    \E t \in Threads :
        /\ th[t].pc = "probed"
        /\ getCapacity(submaps[0]) = fcmmNextPrime(MaxProbeCapacity)
        /\ calculateProbeIncrement(submaps[0], th[t].hash2) > 1
        /\ th[t].probed[1] > 0

(***************************************************************************)
(* C33.  In every reachable state numEntries <= the sum of the submaps'    *)
(* numValidBuckets <= the number of VALID buckets <= the total capacity,   *)
(* and in each submap numValidBuckets <= its number of VALID buckets; when *)
(* no insert is in progress the counts are equal (numEntries counts the    *)
(* VALID buckets, duplicates included).                                    *)
(***************************************************************************)
validBucketsOf(sm) ==
    Cardinality({ b \in DOMAIN sm.buckets : sm.buckets[b].state = "VALID" })

RECURSIVE SumOver(_, _)
SumOver(f, S) ==
    IF S = {} THEN 0
    ELSE LET x == CHOOSE y \in S : TRUE IN f[x] + SumOver(f, S \ {x})

CountedValid == SumOver([i \in DOMAIN submaps |-> submaps[i].numValidBuckets],
                        DOMAIN submaps)
ValidBuckets == SumOver([i \in DOMAIN submaps |-> validBucketsOf(submaps[i])],
                        DOMAIN submaps)
TotalCapacity == SumOver([i \in DOMAIN submaps |-> getCapacity(submaps[i])],
                         DOMAIN submaps)

C33_CountersLag ==
    /\ numEntries <= CountedValid
    /\ CountedValid <= ValidBuckets
    /\ ValidBuckets <= TotalCapacity
    /\ \A i \in DOMAIN submaps :
          submaps[i].numValidBuckets <= validBucketsOf(submaps[i])
    /\ (\A t \in Threads : ~InInsert(th[t]))
          => /\ numEntries = CountedValid
             /\ CountedValid = ValidBuckets
             /\ \A i \in DOMAIN submaps :
                   submaps[i].numValidBuckets = validBucketsOf(submaps[i])

\* both counters lag: a thread has published its bucket and not yet counted
\* it, the other has counted its bucket in the submap and not yet in the map
C33_Witness ==
    /\ numEntries < CountedValid
    /\ CountedValid < ValidBuckets
    /\ \E t, u \in Threads :
          th[t].pc = "si_incvalid" /\ th[u].pc = "ih_incentries"

\* no insert is in progress and the map has expanded
C33_WitnessQuiescent ==
    /\ \A t \in Threads : ~InInsert(th[t])
    /\ numSubmaps = 2
    /\ numEntries = ValidBuckets /\ numEntries > 3

(***************************************************************************)
(* C34.  One Fcmm::insert(key, computeValue) call invokes computeValue at  *)
(* most once, however many EMPTY buckets it meets, however many            *)
(* compare-exchanges it loses and however many times it starts over after  *)
(* an expansion or a full submap.                                          *)
(***************************************************************************)
C34_ComputesAtMostOnce ==
    \A t \in Threads : th[t].res.computeCalls <= 1

\* What the code keeps: valueComputed is a local of Submap::insert, so
\* computeValue is invoked at most once in each Submap::insert call, and the
\* flag is lost when the call ends in FullSubmapException.
C34_StepOfSubmapInsert ==
    \A t \in Threads :
        /\ th'[t].res.computeCalls > th[t].res.computeCalls
              => /\ th[t].pc = "si_load" /\ ~th[t].valueComputed
                 /\ th'[t].valueComputed
                 /\ th'[t].res.computeCalls = th[t].res.computeCalls + 1
        /\ (th[t].valueComputed /\ ~th'[t].valueComputed)
              => \/ ~InInsert(th'[t])
                 \/ th'[t].pc = "ex_spin"
                    /\ th[t].pc \in {"si_load", "si_cas", "si_reload"}

C34_OncePerSubmapInsert == [][C34_StepOfSubmapInsert]_vars

\* a thread has computed the value, lost the bucket, found the submap full
\* and, after the expansion, computed the value again
C34_ComputedAgainWitness ==
    \E t \in Threads :
        /\ th[t].res.computeCalls = 2
        /\ th[t].pc = "si_cas" /\ th[t].last = 1

(***************************************************************************)
(* C35.  In a single-thread getValue with DeclarePrerequisites, on a fresh *)
(* memo and an acyclic graph, Compute is invoked exactly once and          *)
(* DeclarePrerequisites exactly once for every key reachable from the      *)
(* root, also when a key is declared by several dependents, or several     *)
(* times by one call, and lies on the stack more than once.                *)
(***************************************************************************)
C35_Case == gv.numThreads = 1 /\ gv.declare

ExpectedCalls ==
    { <<0, k, m>> : k \in Visited(deps, gv.key), m \in {"NORMAL", "DECLARE"} }

\* when the call is over every reachable key has been declared and computed
C35_EveryKeyOnce ==
    C35_Case /\ gv.pc \in {"returned", "threw", "terminated"}
       => hist.computed = ExpectedCalls

\* a step that invokes Compute or DeclarePrerequisites for a key invokes it
\* for the first time
C35_FirstCallStep ==
    \A t \in Threads :
        LET s == th[t]
            n == Len(s.items)
        IN  /\ (s.pc = "si_load" /\ s.lazy
                  /\ th'[t].res.computeCalls > s.res.computeCalls)
                  => <<t, s.ikey, "NORMAL">> \notin hist.computed
            /\ (s.pc = "r_loop" /\ n > 0 /\ th'[t] # s)
                  => (~s.items[n].ready /\ ~find(s.items[n].key).found
                         => <<t, s.items[n].key, "DECLARE">> \notin hist.computed)

\* the same, for a memo constructed without circular dependency detection
C35_EveryKeyOnceDetectionOff ==
    /\ [](~detectCircularDependencies => C35_EveryKeyOnce)
    /\ [][C35_Case => C35_FirstCallStep]_vars

\* detection is off and a key that has been declared and computed lies on
\* the stack once more, below
C35_DetectionOffWitness ==
    /\ C35_Case /\ ~detectCircularDependencies
    /\ gv.pc = "running"
    /\ \E i \in 1 .. Len(th[0].items) :
          LET k == th[0].items[i].key IN
          /\ <<0, k, "NORMAL">> \in hist.computed
          /\ <<0, k, "DECLARE">> \in hist.computed
          /\ ~th[0].items[i].ready
          /\ find(k).found

(***************************************************************************)
(* C36.  (as stated) In a single-thread getValue (thread 0), when the      *)
(* discovery step of a key pushes the missing prerequisites p1, ..., pn in *)
(* that declared order, they are processed in the declared order: p1 is    *)
(* computed and published before p2, and so on up to pn.  Stated here for  *)
(* the root of a call on a fresh memo, all of whose prerequisites are      *)
(* missing.                                                                *)
(***************************************************************************)
C36_Case == gv.numThreads = 1 /\ gv.pc \in {"running", "returned", "threw"}

\* the places i < j of two different prerequisites of the root
RootPairs ==
    { <<i, j>> \in (1 .. Len(deps[gv.key])) \X (1 .. Len(deps[gv.key])) :
         i < j /\ \A h \in 1 .. Len(deps[gv.key]) :
                     h # i /\ h # j => deps[gv.key][h] \notin
                                          {deps[gv.key][i], deps[gv.key][j]} }

C36_DeclaredOrder ==
    C36_Case
       => \A ij \in RootPairs :
             LET pi == deps[gv.key][ij[1]]
                 pj == deps[gv.key][ij[2]]
             IN  pi # pj /\ Memoized(pj) => Memoized(pi)

(***************************************************************************)
(* C36.  (amended) Thread 0 leaves the pushed prerequisites on the stack   *)
(* in the declared order, pn on top, and run always works on the top item: *)
(* the prerequisites are processed last declared first.  pn is computed    *)
(* and published first, and pi is published before a later pj only if pi   *)
(* is itself a prerequisite, direct or not, of a prerequisite declared     *)
(* after it.                                                               *)
(***************************************************************************)
\* a step of thread 0 touches the top of its stack only: it marks the top
\* item ready, pops it, or pushes the prerequisite being declared or read
C36_TopOnlyStep ==
    LET old == th[0].items
        new == th'[0].items
        n == Len(old)
    IN  /\ Len(new) \in (IF n = 0 THEN 0 ELSE n - 1) .. (n + 1)
        /\ \A i \in 1 .. n :
              /\ i < n => new[i] = old[i]
              /\ i = n /\ Len(new) >= n => new[i].key = old[i].key
        /\ Len(new) = n + 1 /\ n > 0
              => /\ th[0].pc \in {"d_step", "c_step"}
                 /\ new[n + 1] = [key |-> deps[th[0].ckey][th[0].ci],
                                  ready |-> FALSE]

C36_ReverseOrder ==
    C36_Case
       => \A ij \in RootPairs :
             LET root == deps[gv.key]
                 pi == root[ij[1]]
                 pj == root[ij[2]]
             IN  pi # pj /\ Memoized(pi) /\ ~Memoized(pj)
                    => \E k \in (ij[1] + 1) .. Len(root) :
                          pi \in Visited(deps, root[k])

C36_LastDeclaredFirst ==
    []C36_ReverseOrder /\ [][C36_Case /\ gv'.pc = gv.pc => C36_TopOnlyStep]_vars

\* the root declared p1 and then p2, independent of each other: p2 is
\* published and p1, below it on the stack, is not
C36_Witness ==
    /\ C36_Case /\ gv.pc = "running"
    /\ Len(deps[gv.key]) = 2
    /\ LET p1 == deps[gv.key][1]
           p2 == deps[gv.key][2]
       IN  /\ p1 # p2
           /\ p1 \notin Visited(deps, p2)
           /\ Memoized(p2) /\ ~Memoized(p1)
           /\ Len(th[0].items) = 2 /\ th[0].items[2].key = p1

(***************************************************************************)
(* C37.  finalizeGroup only permutes the last groupSize items of the       *)
(* stack: for thread 0 they stay in push order, for thread 1 they are      *)
(* reversed, for a thread above 1 they are some permutation of themselves; *)
(* every item below the group (key and ready flag) is unchanged, the       *)
(* multiset of the stack's items is preserved, and afterwards groupSize is *)
(* 0.                                                                      *)
(***************************************************************************)
occurrences(seq, x) == Cardinality({ i \in 1 .. Len(seq) : seq[i] = x })

sameItems(a, b) ==
    /\ Len(a) = Len(b)
    /\ \A x \in Range(a) \cup Range(b) : occurrences(a, x) = occurrences(b, x)

C37_FinalizeStep ==
    \A t \in DOMAIN th :
        th[t].pc = "fg" /\ th'[t].pc = "fg_done"
           => LET old == th[t].items
                  new == th'[t].items
                  n == Len(old)
                  g == th[t].groupSize
                  group == SubSeq(old, n - g + 1, n)
                  newGroup == SubSeq(new, n - g + 1, n)
              IN  /\ Len(new) = n
                  /\ SubSeq(new, 1, n - g) = SubSeq(old, 1, n - g)
                  /\ sameItems(newGroup, group)
                  /\ sameItems(new, old)
                  /\ t = 0 => new = old
                  /\ t = 1 => \A i \in 1 .. g : newGroup[i] = group[g + 1 - i]
                  /\ th'[t].groupSize = 0

C37_PermutesGroup == [][C37_FinalizeStep]_vars

\* a group of MaxStack different items: thread 1 has reversed it, thread 2 has left it in an order that is neither the push order nor
\* its reverse, and thread 0 still holds the stack as it was pushed
C37_Witness ==
    /\ th[0].pc = "fg" /\ th[0].groupSize = MaxStack
    /\ \A i, j \in 1 .. Len(th[0].items) : i # j => th[0].items[i] # th[0].items[j]
    /\ th[1].pc = "fg_done" /\ th[1].items = reverse(th[0].items)
    /\ th[2].pc = "fg_done" /\ th[2].items \notin {th[0].items, th[1].items}

(***************************************************************************)
(* C38.  At the start of every turn of the loop of run, in every worker,   *)
(* groupSize is 0, so run never calls pop() on a group that is not         *)
(* finalized: the runtime_error of pop() ("The current group is not        *)
(* finalized.") is unreachable from a getValue call, in both discovery     *)
(* modes.                                                                  *)
(***************************************************************************)
C38_GroupFinalized ==
    \A t \in Threads :
        /\ th[t].pc = "r_loop" => th[t].groupSize = 0
        \* from the insert of a ready item, or of a dry run's value, run
        \* goes on to pop()
        /\ th[t].ret \in {"r_pop", "r_drypop"} => th[t].groupSize = 0
        /\ th[t].exc # "runtime_error"
        /\ gv.exc # "runtime_error"

\* a dry run has pushed two prerequisites and the group is finalized: the
\* loop starts its next turn
C38_Witness ==
    \E t \in Threads :
        LET s == th[t]
            n == Len(s.items)
        IN  /\ ~gv.declare
            /\ s.pc = "r_loop" /\ s.groupSize = 0
            /\ n >= 3
            /\ s.items[n - 2].ready /\ ~s.items[n - 1].ready /\ ~s.items[n].ready

\* a dry run that pushed nothing has given the value: it is being inserted,
\* and pop() comes next
C38_WitnessDryPop ==
    \E t \in Threads : th[t].ret = "r_drypop" /\ th[t].pc = "si_load"

(***************************************************************************)
(* C39.  During discovery the gatherer (DeclarePrerequisites) and the      *)
(* provider in DRY_RUN mode push a requested key onto the stack of the     *)
(* calling worker, and no other, if and only if find(key) is absent at     *)
(* that moment; the DRY_RUN provider returns the stored value when the key *)
(* is present and the default-constructed dummy value when it is absent;   *)
(* the provider in NORMAL mode never pushes.                               *)
(***************************************************************************)
\* the stack after the step holds the items it held, and the key once more
\* if it was pushed (finalizeGroup may have reordered the group)
pushedOnto(old, new, key) ==
    /\ Len(new) = Len(old) + 1
    /\ \A x \in Range(new) :
          occurrences(new, x) =
             occurrences(old, x) + (IF x = [key |-> key, ready |-> FALSE] THEN 1 ELSE 0)

C39_RequestStep ==
    \A t \in Threads :
        LET s == th[t]
            key == deps[s.ckey][s.ci]
            absent == ~find(key).found
            discovery == s.pc = "d_step" \/ (s.pc = "c_step" /\ s.mode = "DRY_RUN")
        \* the thread takes the step itself (it is not ended by std::terminate)
        IN  s.pc \in {"d_step", "c_step"} /\ th'[t] # s /\ th'[t].pc # "killed"
               => /\ discovery /\ absent => pushedOnto(s.items, th'[t].items, key)
                  /\ discovery /\ ~absent => sameItems(s.items, th'[t].items)
                  /\ ~discovery => th'[t].items = s.items
                  /\ \A u \in Threads \ {t} : th'[u] = th[u]
                  /\ submaps' = submaps
                  \* the value the provider returned is added to Compute's sum
                  /\ (s.pc = "c_step" /\ th'[t].pc = "c_step")
                        => th'[t].acc = s.acc + (IF absent THEN dummyValue
                                                 ELSE entryAt(find(key)).value)

C39_PushIffAbsent == [][C39_RequestStep]_vars

\* a dry run has read a prerequisite another worker has published, without
\* pushing it, and one that is absent, which it has pushed
C39_Witness ==
    \E t \in Threads :
        LET s == th[t] IN
        /\ gv.numThreads = 2
        /\ s.pc = "c_step" /\ s.mode = "DRY_RUN" /\ s.ci = 2
        /\ s.groupSize = 0
        /\ find(deps[s.ckey][1]).found
        /\ s.acc = entryAt(find(deps[s.ckey][1])).value
        /\ ~find(deps[s.ckey][2]).found

\* the gatherer has pushed the first prerequisite declared, which was absent
C39_WitnessDeclare ==
    \E t \in Threads :
        LET s == th[t] IN
        /\ s.pc = "d_step" /\ s.ci = 2 /\ s.groupSize = 1
        /\ s.items[Len(s.items)].key = deps[s.ckey][1]

(***************************************************************************)
(* C40.  With detection off, if a cycle is reachable from the root, no     *)
(* error is raised and the worker never terminates: it keeps pushing the   *)
(* keys of the cycle again, its stack grows without bound (here: up to     *)
(* StackBound), no key on the cycle is ever published and getValue never   *)
(* returns.                                                                *)
(***************************************************************************)
C40_Case ==
    /\ ~detectCircularDependencies
    /\ gv.pc # "idle"
    /\ ReachesCycle(deps, gv.key)

C40_NoReturnNoError ==
    C40_Case
       => /\ gv.pc = "running" /\ gv.exc = "none"
          /\ \A t \in Workers : th[t].pc \notin {"done", "threw", "killed"}
                                /\ th[t].exc = "none"
          /\ \A k \in Keys : OnCycle(deps, k) => ~Memoized(k)
          /\ ~Memoized(gv.key)

\* every worker's stack has grown as far as the model lets it, keys of the
\* cycle on it more than once
C40_StacksFull ==
    \A t \in Workers :
        /\ Len(th[t].items) = StackBound
        /\ \E i, j \in 1 .. StackBound :
              /\ i < j /\ th[t].items[i].key = th[t].items[j].key
              /\ OnCycle(deps, th[t].items[i].key)

C40_GrowsForEver ==
    /\ []C40_NoReturnNoError
    /\ C40_Case ~> [](C40_Case /\ C40_StacksFull)

\* two workers over a graph with a cycle, detection off: both stacks are
\* full of the keys of the cycle
C40_Witness ==
    /\ C40_Case /\ gv.numThreads = 2
    /\ C40_StacksFull

====
